---- MODULE Spec2Model ----
(***************************************************************************)
(* The monitoring cycle engine of eddie: the Runner (scheduler, per-target *)
(* tasks, hysteresis state machine, staleness guard) and the in-memory     *)
(* state store it writes.                                                  *)
(*                                                                         *)
(* Time.  Instants are integers, one unit being one second.  The Go zero   *)
(* time.Time is ZeroTime; every reading of time.Now() is a later instant.  *)
(* The code never looks at an instant by itself, only at IsZero() and at   *)
(* the difference of two instants (time.Sub), so the engine is modelled in *)
(* a frame that moves with the clock: time.Now() is always the instant Now *)
(* and the passing of one second (Elapse) moves every stored instant one   *)
(* second into the past, down to Now - Horizon, where Horizon is larger    *)
(* than every gap the staleness guard compares against.                    *)
(*                                                                         *)
(* Steps of the program take no time; time passes only while a probe is    *)
(* in flight (at most until its timeout) or while Run waits in its select. *)
(***************************************************************************)
EXTENDS Integers, Sequences, FiniteSets, TLC

\* ------------------------------------------------------------------ bounds

\* Largest cycles.failure / cycles.success value a check definition carries.
MaxThreshold == 2
\* Largest cycle interval, in seconds, the configuration carries.
MaxInterval == 1
\* Cap of the consecutive counters: a probe outcome that would push the
\* stored failure counter past it is not drawn.
MaxCount == 2
\* Width in bits of time.Duration in the model (int64 in the program).
DurationBits == 4
\* Cap of the runScript goroutines of one definition under way: with that
\* many, no probe outcome of the definition is drawn.
MaxScripts == 2

\* --------------------------------------------------------------- constants

staleCycleGapMultiplier == 2
\* validateHTTPSpec: the request timeout used when the definition has none.
DefaultTimeout == 5

StatusHealthy == "healthy"
StatusFailing == "failing"

transitionNone == "transitionNone"
transitionFailure == "transitionFailure"
transitionRecovery == "transitionRecovery"

\* ------------------------------------------------------ durations, instants

MaxDuration == (2 ^ (DurationBits - 1)) - 1
MinDuration == -(2 ^ (DurationBits - 1))
Durations == MinDuration..MaxDuration

\* Two's-complement wrap of an integer into the range of time.Duration.
WrapDuration(x) == ((x - MinDuration) % (2 ^ DurationBits)) + MinDuration

Max(a, b) == IF a >= b THEN a ELSE b
Min(a, b) == IF a <= b THEN a ELSE b

ZeroTime == 0
IsZero(t) == t = ZeroTime

\* time.Time.Sub: the difference, saturated to the range of time.Duration.
Sub(t, u) == Max(MinDuration, Min(MaxDuration, t - u))

\* ------------------------------------------------------------ state package

\* state.SpecState
SpecState(status, failures, successes, startedAt, completedAt) ==
    [Status |-> status,
     ConsecutiveFailures |-> failures,
     ConsecutiveSuccesses |-> successes,
     LastCycleStartedAt |-> startedAt,
     LastCycleAt |-> completedAt]

\* The state the runner uses for a name the store does not hold:
\* state.SpecState{Status: state.StatusHealthy}.
NewSpecState == SpecState(StatusHealthy, 0, 0, ZeroTime, ZeroTime)

\* InMemoryStore.Get: the stored state and whether there is one.
Get(store, specName) ==
    IF specName \in DOMAIN store
    THEN [state |-> store[specName], ok |-> TRUE]
    ELSE [state |-> SpecState("", 0, 0, ZeroTime, ZeroTime), ok |-> FALSE]

\* InMemoryStore.Set
Set(store, specName, specState) ==
    [n \in (DOMAIN store) \cup {specName} |->
        IF n = specName THEN specState ELSE store[n]]

\* ------------------------------------------------- monitor: pure functions

\* thresholdOrDefault gone wrong: only a negative value takes the fallback.
thresholdOrDefaultNegativeOnly(value, fallback) ==
    IF value < 0 THEN fallback ELSE value

thresholdOrDefault(value, fallback) ==
    IF value <= 0 THEN fallback ELSE value

\* resetStaleConsecutiveState gone wrong: a gap of exactly the maximum
\* already counts as stale.
resetStaleAtMaxGap(current, cycleAt, cycleInterval) ==
    IF IsZero(current.LastCycleAt) \/ cycleInterval <= 0
    THEN current
    ELSE LET maxGap == WrapDuration(cycleInterval * staleCycleGapMultiplier)
         IN  IF maxGap <= 0 \/ Sub(cycleAt, current.LastCycleAt) < maxGap
             THEN current
             ELSE [current EXCEPT !.ConsecutiveFailures = 0,
                                  !.ConsecutiveSuccesses = 0]

\* resetStaleConsecutiveState gone wrong: maxGap is not tested for having
\* wrapped.
resetStaleUnchecked(current, cycleAt, cycleInterval) ==
    IF IsZero(current.LastCycleAt) \/ cycleInterval <= 0
    THEN current
    ELSE LET maxGap == WrapDuration(cycleInterval * staleCycleGapMultiplier)
         IN  IF Sub(cycleAt, current.LastCycleAt) <= maxGap
             THEN current
             ELSE [current EXCEPT !.ConsecutiveFailures = 0,
                                  !.ConsecutiveSuccesses = 0]

resetStaleConsecutiveState(current, cycleAt, cycleInterval) ==
    IF IsZero(current.LastCycleAt) \/ cycleInterval <= 0
    THEN current
    ELSE LET maxGap == WrapDuration(cycleInterval * staleCycleGapMultiplier)
         IN  IF maxGap <= 0
             THEN current
             ELSE IF Sub(cycleAt, current.LastCycleAt) <= maxGap
                  THEN current
                  ELSE [current EXCEPT !.ConsecutiveFailures = 0,
                                       !.ConsecutiveSuccesses = 0]

\* applyCycleResult gone wrong in one place each: which counter an outcome
\* clears, how a counter is compared with its threshold, and whether a
\* failure of a failing target is reported again.
applyVariant(current, success, failureThreshold, successThreshold, clearFailures, clearSuccesses, strict, level) ==
    LET reached(count, threshold) ==
            IF strict THEN count > threshold ELSE count >= threshold
    IN
    IF success
    THEN LET c1 == IF clearFailures
                   THEN [current EXCEPT !.ConsecutiveFailures = 0] ELSE current
         IN  IF c1.Status = StatusFailing
             THEN LET c2 == [c1 EXCEPT !.ConsecutiveSuccesses = @ + 1]
                  IN  IF reached(c2.ConsecutiveSuccesses, successThreshold)
                      THEN [state |-> [c2 EXCEPT !.Status = StatusHealthy,
                                                 !.ConsecutiveSuccesses = 0],
                            transition |-> transitionRecovery]
                      ELSE [state |-> c2, transition |-> transitionNone]
             ELSE [state |-> [c1 EXCEPT !.ConsecutiveSuccesses = 0],
                   transition |-> transitionNone]
    ELSE LET c1 == IF clearSuccesses
                   THEN [current EXCEPT !.ConsecutiveSuccesses = 0] ELSE current
         IN  IF c1.Status = StatusFailing
             THEN [state |-> [c1 EXCEPT !.ConsecutiveFailures = @ + 1],
                   transition |-> IF level THEN transitionFailure ELSE transitionNone]
             ELSE LET c2 == [c1 EXCEPT !.ConsecutiveFailures = @ + 1]
                  IN  IF reached(c2.ConsecutiveFailures, failureThreshold)
                      THEN [state |-> [c2 EXCEPT !.Status = StatusFailing,
                                                 !.ConsecutiveFailures = 0],
                            transition |-> transitionFailure]
                      ELSE [state |-> c2, transition |-> transitionNone]

\* A success leaves consecutiveFailures as it is.
applyKeepingFailures(current, success, failureThreshold, successThreshold) ==
    applyVariant(current, success, failureThreshold, successThreshold,
                 FALSE, TRUE, FALSE, FALSE)

\* A failure leaves consecutiveSuccesses as it is.
applyKeepingSuccesses(current, success, failureThreshold, successThreshold) ==
    applyVariant(current, success, failureThreshold, successThreshold,
                 TRUE, FALSE, FALSE, FALSE)

\* A counter has to exceed its threshold, not reach it.
applyExceeding(current, success, failureThreshold, successThreshold) ==
    applyVariant(current, success, failureThreshold, successThreshold,
                 TRUE, TRUE, TRUE, FALSE)

\* Every failure of a failing target is reported as a failure transition.
applyLevelTriggered(current, success, failureThreshold, successThreshold) ==
    applyVariant(current, success, failureThreshold, successThreshold,
                 TRUE, TRUE, FALSE, TRUE)

applyCycleResult(current, success, failureThreshold, successThreshold) ==
    IF success
    THEN LET c1 == [current EXCEPT !.ConsecutiveFailures = 0]
         IN  IF c1.Status = StatusFailing
             THEN LET c2 == [c1 EXCEPT !.ConsecutiveSuccesses = @ + 1]
                  IN  IF c2.ConsecutiveSuccesses >= successThreshold
                      THEN [state |-> [c2 EXCEPT !.Status = StatusHealthy,
                                                 !.ConsecutiveSuccesses = 0],
                            transition |-> transitionRecovery]
                      ELSE [state |-> c2, transition |-> transitionNone]
             ELSE [state |-> [c1 EXCEPT !.ConsecutiveSuccesses = 0],
                   transition |-> transitionNone]
    ELSE LET c1 == [current EXCEPT !.ConsecutiveSuccesses = 0]
         IN  IF c1.Status = StatusFailing
             THEN [state |-> [c1 EXCEPT !.ConsecutiveFailures = @ + 1],
                   transition |-> transitionNone]
             ELSE LET c2 == [c1 EXCEPT !.ConsecutiveFailures = @ + 1]
                  IN  IF c2.ConsecutiveFailures >= failureThreshold
                      THEN [state |-> [c2 EXCEPT !.Status = StatusFailing,
                                                 !.ConsecutiveFailures = 0],
                            transition |-> transitionFailure]
                      ELSE [state |-> c2, transition |-> transitionNone]

hasStateChanged(before, after) ==
    \/ before.Status # after.Status
    \/ before.ConsecutiveFailures # after.ConsecutiveFailures
    \/ before.ConsecutiveSuccesses # after.ConsecutiveSuccesses

\* ------------------------------------------------------------------ engine

VARIABLES
    specs,          \* Runner.specs: the check definitions, by name
    cycleInterval,  \* Runner.cycleInterval
    mailService,    \* Runner.mailService is not nil
    mailRecipients, \* Runner.mailRecipients
    stateStore,     \* InMemoryStore.states
    ctxDone,        \* the context handed to Run has been cancelled
    runner,         \* where Run stands
    ticker,         \* the time.Ticker of Run
    task,           \* the goroutine runCycle starts for each active spec
    transition,     \* per name, what the last handleCycleResult got from applyCycleResult
    lastEdge,       \* per name, the last transition other than transitionNone
    streak,         \* per name, the current run of equal probe outcomes
    scripts,        \* per name and action, the runScript goroutines under way
    sends,          \* per name, the Send calls that have returned in the sendEmailToAll under way
    cancelledDuring, \* where Run stood when its context was cancelled (kept by DispatchSpec)
    mu,             \* InMemoryStore.mu
    conns,          \* the requests the HTTP server is serving, each in its goroutine
    server,         \* the Server of main and where main stands
    call            \* the direct calls of functions of a package, with their results

engine == <<specs, cycleInterval, mailService, mailRecipients, stateStore, ctxDone,
            runner, ticker, task, transition, lastEdge, streak, scripts, sends,
            cancelledDuring>>

web == <<mu, conns, server>>

vars == <<engine, web, call>>

Names == {"a", "b", "off"}

\* The values a definition's cycles.failure and cycles.success take.
ThresholdConfigs == 0..MaxThreshold
\* The values the configuration's cycle interval takes.
IntervalConfigs == -1..MaxInterval

\* spec.Spec, reduced to what the runner reads of it.
Definition(disabled, failure, success, timeout) ==
    [Disabled |-> disabled,
     Cycles |-> [Failure |-> failure, Success |-> success],
     Timeout |-> timeout,
     OnFailure |-> "",
     OnSuccess |-> ""]

\* Spec.IsActive
IsActive(parsedSpec) == ~parsedSpec.Disabled

Active == {n \in Names : IsActive(specs[n])}

\* validateHTTPSpec: the request timeout of a definition.
reqTimeout(parsedSpec) ==
    IF parsedSpec.Timeout <= 0 THEN DefaultTimeout ELSE parsedSpec.Timeout

\* The moving frame: what time.Now() returns, and how far back instants are
\* told apart.
Horizon == staleCycleGapMultiplier * MaxInterval + 1
Now == Horizon + 1

\* An instant one second later, seen from the moved frame.
Recede(t) == IF IsZero(t) THEN t ELSE Max(t - 1, Now - Horizon)

IdleTask == [pc |-> "idle", cycleStartedAt |-> ZeroTime, checkOK |-> TRUE, left |-> 0]

NoCall == [op |-> "none"]

NoSend == << >>
NoScripts == [on_failure |-> 0, on_success |-> 0]

\* The definitions handed to NewRunner: "a" takes the default timeout and the
\* given thresholds, and names an on_failure and an on_success script when
\* hooks is set; "b" answers within a second and leaves its thresholds and
\* scripts out; "off" is disabled.
Definitions(failure, success, hooks) ==
    [n \in Names |->
        CASE n = "a" -> [Definition(FALSE, failure, success, 0)
                            EXCEPT !.OnFailure = IF hooks THEN "on_failure.sh" ELSE "",
                                   !.OnSuccess = IF hooks THEN "on_success.sh" ELSE ""]
          [] n = "b" -> Definition(FALSE, 0, 0, 1)
          [] OTHER   -> Definition(TRUE, 1, 1, 1)]

\* NewRunner over a new InMemoryStore, before Run is called.
NewRunner(definitions, interval, service, recipients) ==
    /\ specs = definitions
    /\ cycleInterval = interval
    /\ mailService = service
    /\ mailRecipients = recipients
    /\ scripts = [n \in Names |-> NoScripts]
    /\ sends = [n \in Names |-> NoSend]
    /\ cancelledDuring = "none"
    /\ stateStore = [n \in {} |-> NewSpecState]
    /\ ctxDone = FALSE
    /\ runner = "start"
    /\ ticker = [running |-> FALSE, next |-> 0, C |-> 0]
    /\ task = [n \in Names |-> IdleTask]
    /\ transition = [n \in Names |-> transitionNone]
    /\ lastEdge = [n \in Names |-> transitionNone]
    /\ streak = [n \in Names |-> [ok |-> TRUE, len |-> 0]]

\* state.NewInMemoryStore and http.New with WithBasicAuth, before
\* ListenAndServe has accepted a connection.
NewServer(username, password) ==
    /\ mu = [writer |-> FALSE, readers |-> 0]
    /\ conns = << >>
    /\ server = [basicAuthUsername |-> username,
                 basicAuthPassword |-> password,
                 main |-> "serving",
                 grace |-> 0]

\* The runner of a configuration without mail server and without scripts.
Init ==
    /\ \E f \in ThresholdConfigs, s \in ThresholdConfigs, i \in IntervalConfigs :
          NewRunner(Definitions(f, s, FALSE), i, FALSE, << >>)
    /\ NewServer("", "")
    /\ call = NoCall

\* markCycleStarted gone wrong: it marks the state of a definition that has
\* one and creates none.
markCycleStartedOfKnown(store, name, cycleStartedAt) ==
    IF Get(store, name).ok
    THEN Set(store, name, [Get(store, name).state EXCEPT !.LastCycleStartedAt = cycleStartedAt])
    ELSE store

\* Runner.markCycleStarted: the store after it.
markCycleStarted(store, name, cycleStartedAt) ==
    LET got == Get(store, name)
        currentState == IF got.ok THEN got.state ELSE NewSpecState
    IN  Set(store, name, [currentState EXCEPT !.LastCycleStartedAt = cycleStartedAt])

\* handleCycleResult gone wrong: the state machine runs on the stored state,
\* the staleness guard is left out.
cycleResultUnguarded(store, name, parsedSpec, success, cycleStartedAt, cycleCompletedAt, interval) ==
    LET failureThreshold == thresholdOrDefault(parsedSpec.Cycles.Failure, 1)
        successThreshold == thresholdOrDefault(parsedSpec.Cycles.Success, 1)
        got == Get(store, name)
        currentState == IF got.ok THEN got.state ELSE NewSpecState
        applied == applyCycleResult(currentState, success, failureThreshold, successThreshold)
    IN  [failureThreshold |-> failureThreshold,
         successThreshold |-> successThreshold,
         nextState |-> [applied.state EXCEPT !.LastCycleStartedAt = cycleStartedAt,
                                             !.LastCycleAt = cycleCompletedAt],
         transition |-> applied.transition]

\* handleCycleResult gone wrong: the completion of the cycle is not kept.
cycleResultWithoutCompletion(store, name, parsedSpec, success, cycleStartedAt, cycleCompletedAt, interval) ==
    LET failureThreshold == thresholdOrDefault(parsedSpec.Cycles.Failure, 1)
        successThreshold == thresholdOrDefault(parsedSpec.Cycles.Success, 1)
        got == Get(store, name)
        currentState == IF got.ok THEN got.state ELSE NewSpecState
        guarded == resetStaleConsecutiveState(currentState, cycleCompletedAt, interval)
        applied == applyCycleResult(guarded, success, failureThreshold, successThreshold)
    IN  [failureThreshold |-> failureThreshold,
         successThreshold |-> successThreshold,
         nextState |-> [applied.state EXCEPT !.LastCycleStartedAt = cycleStartedAt],
         transition |-> applied.transition]

\* Runner.handleCycleResult up to its stateStore.Set: the thresholds it
\* resolves, the state it stores and the transition it then dispatches on.
cycleResult(store, name, parsedSpec, success, cycleStartedAt, cycleCompletedAt, interval) ==
    LET failureThreshold == thresholdOrDefault(parsedSpec.Cycles.Failure, 1)
        successThreshold == thresholdOrDefault(parsedSpec.Cycles.Success, 1)
        got == Get(store, name)
        currentState == IF got.ok THEN got.state ELSE NewSpecState
        guarded == resetStaleConsecutiveState(currentState, cycleCompletedAt, interval)
        applied == applyCycleResult(guarded, success, failureThreshold, successThreshold)
    IN  [failureThreshold |-> failureThreshold,
         successThreshold |-> successThreshold,
         nextState |-> [applied.state EXCEPT !.LastCycleStartedAt = cycleStartedAt,
                                             !.LastCycleAt = cycleCompletedAt],
         transition |-> applied.transition]

\* The switch of handleCycleResult gone wrong: a cycle without transition
\* triggers the failure actions.
triggerAlways(trans) ==
    IF trans = transitionRecovery THEN "on_success" ELSE "on_failure"

\* handleCycleResult's switch on the transition: the action it triggers.
triggered(trans) ==
    CASE trans = transitionFailure  -> "on_failure"
      [] trans = transitionRecovery -> "on_success"
      [] OTHER                      -> "none"

\* The script a definition names for an action: HTTP.OnFailure for
\* triggerFailureActions, HTTP.OnSuccess for triggerRecoveryActions.
scriptOf(parsedSpec, action) ==
    CASE action = "on_failure" -> parsedSpec.OnFailure
      [] action = "on_success" -> parsedSpec.OnSuccess
      [] OTHER                 -> ""

\* triggerFailureActions / triggerRecoveryActions gone wrong: the script is
\* launched after the test for a mail service and recipients.
launchIfNotifying(running, parsedSpec, action) ==
    IF scriptOf(parsedSpec, action) # "" /\ mailService /\ Len(mailRecipients) > 0
    THEN [running EXCEPT ![action] = @ + 1]
    ELSE running

\* triggerFailureActions / triggerRecoveryActions: go runScript, when the
\* definition names a script for the action.
launch(running, parsedSpec, action) ==
    IF scriptOf(parsedSpec, action) # ""
    THEN [running EXCEPT ![action] = @ + 1]
    ELSE running

\* triggerFailureActions / triggerRecoveryActions: they go on to
\* sendEmailToAll unless the mail service is nil or no recipient is set.
notifies(action, service, recipients) ==
    action # "none" /\ service /\ Len(recipients) > 0

\* sendEmailToAll gone wrong: the loop ends at the first Send that fails.
sendEmailUntilError(sent, recipients, ok) ==
    [sent |-> Append(sent, [recipient |-> recipients[Len(sent) + 1], ok |-> ok]),
     done |-> ~ok \/ Len(sent) + 1 = Len(recipients)]

\* sendEmailToAll, one Send of its loop returning (ok: without error): the
\* Send calls that have returned, and whether the loop is over.
sendEmailToAll(sent, recipients, ok) ==
    [sent |-> Append(sent, [recipient |-> recipients[Len(sent) + 1], ok |-> ok]),
     done |-> Len(sent) + 1 = Len(recipients)]

\* runCycle gone wrong: the IsActive test is left out.
SpawnAll == [n \in Names |-> [IdleTask EXCEPT !.pc = "spawned"]]

\* Runner.runCycle up to wg.Wait: one goroutine per active spec.
Spawn == [n \in Names |-> IF IsActive(specs[n])
                          THEN [IdleTask EXCEPT !.pc = "spawned"]
                          ELSE IdleTask]

\* Run: the first runCycle, before the ticker exists.
RunFirstCycle ==
    /\ runner = "start"
    /\ runner' = "wait"
    /\ task' = Spawn
    /\ UNCHANGED <<specs, cycleInterval, mailService, mailRecipients, stateStore, ctxDone, ticker,
                   transition, lastEdge, streak, scripts, sends, cancelledDuring, call, web>>

\* A Set of a name's state overtakes the snapshots the handlers are taking.
\* Kept with each snapshot of statusHandler: that the store was written
\* since it began (overtaken, and the snapshot before it is no longer one of
\* the same store), that a name it has read was written since (stale), and
\* the names it has yet to read that were written after that (late).
overtake(cs, name) ==
    [c \in DOMAIN cs |->
        LET k == cs[c]
            read == \E i \in DOMAIN k.snapshot.Specs : k.snapshot.Specs[i].Name = name
        IN  IF k.route # "/" THEN k
            ELSE IF k.pc \in {"snapshot", "write"}
            THEN [k EXCEPT !.prev = << >>,
                           !.overtaken = TRUE,
                           !.stale = @ \/ read,
                           !.late = IF k.stale /\ ~read THEN @ \cup {name} ELSE @]
            ELSE [k EXCEPT !.prev = << >>]]

\* The goroutine of runCycle: time.Now(), markCycleStarted, and the request
\* of validateHTTPSpec is under way.
TaskStart(n) ==
    /\ task[n].pc = "spawned"
    /\ stateStore' = markCycleStarted(stateStore, n, Now)
    /\ task' = [task EXCEPT ![n] = [pc |-> "probing", cycleStartedAt |-> Now,
                                    checkOK |-> TRUE, left |-> reqTimeout(specs[n])]]
    /\ conns' = overtake(conns, n)
    /\ UNCHANGED <<specs, cycleInterval, mailService, mailRecipients, ctxDone, runner, ticker,
                   transition, lastEdge, streak, scripts, sends, cancelledDuring, call,
                   mu, server>>

\* The failure counter the store holds for a name (0 when it holds none).
StoredFailures(n) ==
    IF n \in DOMAIN stateStore THEN stateStore[n].ConsecutiveFailures ELSE 0

\* validateHTTPSpec returns: nil only while the context is live and the
\* timeout has not run out, an error at any moment.
ProbeReturn(n) ==
    /\ task[n].pc = "probing"
    /\ \E ok \in BOOLEAN :
          /\ ok => (~ctxDone /\ task[n].left > 0)
          /\ ~ok => StoredFailures(n) < MaxCount
          /\ scripts[n].on_failure + scripts[n].on_success < MaxScripts
          /\ task' = [task EXCEPT ![n].pc = "probed", ![n].checkOK = ok]
    /\ UNCHANGED <<specs, cycleInterval, mailService, mailRecipients, stateStore, ctxDone, runner, ticker,
                   transition, lastEdge, streak, scripts, sends, cancelledDuring, call, web>>

\* The goroutine of runCycle gone wrong: the request is made again instead
\* of handleCycleResult being called.
TaskRetry(n) ==
    /\ task[n].pc = "probed"
    /\ task' = [task EXCEPT ![n].pc = "spawned"]
    /\ UNCHANGED <<specs, cycleInterval, mailService, mailRecipients, stateStore, ctxDone,
                   runner, ticker, transition, lastEdge, streak, scripts, sends,
                   cancelledDuring, call, web>>

\* Runner.handleCycleResult of the goroutine of a name up to its
\* stateStore.Set: the state stored and the transition kept for the switch.
\* read is the store as its stateStore.Get finds it.
storeCycleResult(n, read) ==
    LET success == task[n].checkOK
        res == cycleResult(read, n, specs[n], success,
                           task[n].cycleStartedAt, Now, cycleInterval)
    IN  /\ stateStore' = Set(stateStore, n, res.nextState)
        /\ transition' = [transition EXCEPT ![n] = res.transition]
        /\ lastEdge' = [lastEdge EXCEPT ![n] =
                          IF res.transition = transitionNone THEN @ ELSE res.transition]
        /\ streak' = [streak EXCEPT ![n] =
                        IF @.ok = success
                        THEN [@ EXCEPT !.len = Min(@ + 1, Max(res.failureThreshold, res.successThreshold))]
                        ELSE [ok |-> success, len |-> 1]]
        /\ conns' = overtake(conns, n)

\* Runner.handleCycleResult from its switch on: triggerFailureActions or
\* triggerRecoveryActions up to the first Send of sendEmailToAll, or to the
\* end and wg.Done when nothing is sent.
dispatchTransition(n, trans) ==
    /\ scripts' = [scripts EXCEPT ![n] = launch(@, specs[n], triggered(trans))]
    /\ IF notifies(triggered(trans), mailService, mailRecipients)
       THEN /\ task' = [task EXCEPT ![n] = [IdleTask EXCEPT !.pc = "sending"]]
            /\ sends' = [sends EXCEPT ![n] = NoSend]
       ELSE /\ task' = [task EXCEPT ![n] = IdleTask]
            /\ UNCHANGED sends

\* Runner.handleCycleResult of the goroutine of a name, up to the first Send
\* of sendEmailToAll, or to its end and wg.Done when it sends nothing.
handleCycleResult(n, read) ==
    /\ storeCycleResult(n, read)
    /\ dispatchTransition(n, transition'[n])
    /\ UNCHANGED <<specs, cycleInterval, mailService, mailRecipients, ctxDone, runner,
                   ticker, cancelledDuring, mu, server>>

\* The goroutine of runCycle gone wrong: once the context is cancelled it
\* drops the result of the request instead of calling handleCycleResult.
TaskHandleUnlessCancelled(n) ==
    /\ task[n].pc = "probed"
    /\ IF ctxDone
       THEN /\ task' = [task EXCEPT ![n] = IdleTask]
            /\ UNCHANGED <<specs, cycleInterval, mailService, mailRecipients, stateStore,
                           ctxDone, runner, ticker, transition, lastEdge, streak, scripts,
                           sends, cancelledDuring, web>>
       ELSE handleCycleResult(n, stateStore)
    /\ UNCHANGED call

\* The goroutine of runCycle: handleCycleResult.
TaskHandle(n) ==
    /\ task[n].pc = "probed"
    /\ handleCycleResult(n, stateStore)
    /\ UNCHANGED call

\* The goroutine of runCycle inside sendEmailToAll: a Send returns, with or
\* without error; after the last one handleCycleResult returns, then wg.Done.
SendReturn(n) ==
    /\ task[n].pc = "sending"
    /\ \E ok \in BOOLEAN :
          LET loop == sendEmailToAll(sends[n], mailRecipients, ok)
          IN  /\ sends' = [sends EXCEPT ![n] = IF loop.done THEN NoSend ELSE loop.sent]
              /\ task' = IF loop.done THEN [task EXCEPT ![n] = IdleTask] ELSE task
    /\ UNCHANGED <<specs, cycleInterval, mailService, mailRecipients, stateStore, ctxDone,
                   runner, ticker, transition, lastEdge, streak, scripts,
                   cancelledDuring, call, web>>

\* A runScript goroutine ends: the script has exited or was killed at its
\* timeout.
ScriptExit(n, action) ==
    /\ scripts[n][action] > 0
    /\ scripts' = [scripts EXCEPT ![n][action] = @ - 1]
    /\ UNCHANGED <<specs, cycleInterval, mailService, mailRecipients, stateStore, ctxDone,
                   runner, ticker, task, transition, lastEdge, streak, sends,
                   cancelledDuring, call, web>>

\* runCycle gone wrong: it returns without wg.Wait.
WaitReturnsEarly ==
    /\ runner = "wait"
    /\ runner' = IF ticker.running THEN "select" ELSE "newTicker"
    /\ UNCHANGED <<specs, cycleInterval, mailService, mailRecipients, stateStore, ctxDone,
                   ticker, task, transition, lastEdge, streak, scripts, sends,
                   cancelledDuring, call, web>>

\* Runner.runCycle: wg.Wait returns once every goroutine is done.  After the
\* first round Run goes on to create its ticker, after a later one to its
\* select.
WaitReturns ==
    /\ runner = "wait"
    /\ \A n \in Names : task[n].pc = "idle"
    /\ runner' = IF ticker.running THEN "select" ELSE "newTicker"
    /\ UNCHANGED <<specs, cycleInterval, mailService, mailRecipients, stateStore, ctxDone, ticker, task,
                   transition, lastEdge, streak, scripts, sends, cancelledDuring, call, web>>

\* Run: time.NewTicker(r.cycleInterval), which panics on a non-positive
\* interval.
NewTicker ==
    /\ runner = "newTicker"
    /\ IF cycleInterval <= 0
       THEN /\ runner' = "panicked"
            /\ UNCHANGED ticker
       ELSE /\ runner' = "select"
            /\ ticker' = [running |-> TRUE, next |-> cycleInterval, C |-> 0]
    /\ UNCHANGED <<specs, cycleInterval, mailService, mailRecipients, stateStore, ctxDone, task,
                   transition, lastEdge, streak, scripts, sends, cancelledDuring, call, web>>

\* Run: the select takes <-ctx.Done(); the deferred ticker.Stop runs.
SelectDone ==
    /\ runner = "select"
    /\ ctxDone
    /\ runner' = "returned"
    /\ ticker' = [ticker EXCEPT !.running = FALSE]
    /\ UNCHANGED <<specs, cycleInterval, mailService, mailRecipients, stateStore, ctxDone, task,
                   transition, lastEdge, streak, scripts, sends, cancelledDuring, call, web>>

\* Run: the select takes <-ticker.C and starts the next runCycle.
SelectTick ==
    /\ runner = "select"
    /\ ticker.C > 0
    /\ ticker' = [ticker EXCEPT !.C = 0]
    /\ runner' = "wait"
    /\ task' = Spawn
    /\ UNCHANGED <<specs, cycleInterval, mailService, mailRecipients, stateStore, ctxDone,
                   transition, lastEdge, streak, scripts, sends, cancelledDuring, call, web>>

\* The context of Run is cancelled.
Cancel ==
    /\ ~ctxDone
    /\ runner \notin {"returned", "panicked"}
    /\ ctxDone' = TRUE
    /\ UNCHANGED <<specs, cycleInterval, mailService, mailRecipients, stateStore, runner,
                   ticker, task, transition, lastEdge, streak, scripts, sends, call, web>>

\* ------------------------------------------------------------ status views

\* parsedSpecs of main: the definitions in the order they were loaded.
parsedSpecs == <<"a", "b", "off">>

\* time.Time.UTC().Format(time.RFC3339Nano): the text of an instant.
Format(t) == [RFC3339Nano |-> t]

\* The text shown in place of an instant that is not there.
Never == [text |-> "never"]

\* The snapshot function gone wrong: every definition counts as enabled.
specStatusOfEnabled(store, name, parsedSpec) ==
    LET got == Get(store, name)
    IN  [Name |-> name,
         Disabled |-> FALSE,
         HasState |-> got.ok,
         Status |-> got.state.Status,
         ConsecutiveFailures |-> got.state.ConsecutiveFailures,
         ConsecutiveSuccesses |-> got.state.ConsecutiveSuccesses,
         LastCycleStartedAt |-> got.state.LastCycleStartedAt,
         LastCycleAt |-> got.state.LastCycleAt]

\* One turn of the loop of main's snapshot function: the SpecStatus of a
\* definition, from what Get returns for its name.
specStatusOf(store, name, parsedSpec) ==
    LET got == Get(store, name)
    IN  [Name |-> name,
         Disabled |-> ~IsActive(parsedSpec),
         HasState |-> got.ok,
         Status |-> got.state.Status,
         ConsecutiveFailures |-> got.state.ConsecutiveFailures,
         ConsecutiveSuccesses |-> got.state.ConsecutiveSuccesses,
         LastCycleStartedAt |-> got.state.LastCycleStartedAt,
         LastCycleAt |-> got.state.LastCycleAt]

\* The snapshot function of main when nothing runs between its calls of Get.
statusSnapshot(store, definitions, generatedAt) ==
    [GeneratedAt |-> generatedAt,
     Specs |-> [i \in DOMAIN parsedSpecs |->
                  specStatusOf(store, parsedSpecs[i], definitions[parsedSpecs[i]])]]

\* An instant as buildStatusViewData shows it.
shown(hasState, t) == IF hasState /\ ~IsZero(t) THEN Format(t) ELSE Never

stateClassOf(status) ==
    CASE status = "healthy" -> "state-healthy"
      [] status = "failing" -> "state-failing"
      [] OTHER              -> "state-unknown"

rowOf(specStatus, status) ==
    [Name |-> specStatus.Name,
     Disabled |-> specStatus.Disabled,
     HasState |-> specStatus.HasState,
     State |-> status,
     ConsecutiveFailures |-> specStatus.ConsecutiveFailures,
     ConsecutiveSuccesses |-> specStatus.ConsecutiveSuccesses,
     LastCycleStartedAt |-> shown(specStatus.HasState, specStatus.LastCycleStartedAt),
     LastCycleAt |-> shown(specStatus.HasState, specStatus.LastCycleAt),
     StateClass |-> stateClassOf(status)]

\* The loop of buildStatusViewData gone wrong: an empty status stays empty.
statusRowAsStored(specStatus) == rowOf(specStatus, specStatus.Status)

\* One turn of the loop of buildStatusViewData: the row of a SpecStatus.
statusRow(specStatus) ==
    rowOf(specStatus, IF specStatus.Status = "" THEN "unknown" ELSE specStatus.Status)

\* buildStatusViewData gone wrong: disabled definitions are left out.
buildStatusViewOfEnabled(snapshot) ==
    LET enabled == SelectSeq(snapshot.Specs, LAMBDA specStatus : ~specStatus.Disabled)
    IN  [GeneratedAt |-> Format(snapshot.GeneratedAt),
         SpecCount |-> Len(enabled),
         Rows |-> [i \in DOMAIN enabled |-> statusRow(enabled[i])]]

buildStatusViewData(snapshot) ==
    [GeneratedAt |-> Format(snapshot.GeneratedAt),
     SpecCount |-> Len(snapshot.Specs),
     Rows |-> [i \in DOMAIN snapshot.Specs |-> statusRow(snapshot.Specs[i])]]

\* -------------------------------------------------------------- http server

\* statusEventsHandler: time.NewTicker(2 * time.Second)
streamInterval == 2
\* main: context.WithTimeout(context.Background(), 10*time.Second)
shutdownGrace == 10

\* The connections the server accepts.
Clients == {"c1", "c2"}

\* What r.BasicAuth() returns for a request without an Authorization header.
NoAuth == [ok |-> FALSE, username |-> "", password |-> ""]

NoSnapshot == [GeneratedAt |-> ZeroTime, Specs |-> << >>]
NoView == [GeneratedAt |-> Never, SpecCount |-> 0, Rows |-> << >>]

\* A request that has reached its handler.
NewRequest(route, auth) ==
    [route |-> route, auth |-> auth, pc |-> "accepted", code |-> 0,
     ctxDone |-> FALSE, ticker |-> [next |-> 0, C |-> 0],
     snapshot |-> NoSnapshot, body |-> NoView,
     prev |-> << >>, overtaken |-> FALSE, stale |-> FALSE, late |-> {}, torn |-> FALSE]

\* requireBasicAuth gone wrong: a request without credentials passes.
requireBasicAuthIfGiven(s, auth) ==
    \/ s.basicAuthUsername = ""
    \/ ~auth.ok
    \/ auth.username = s.basicAuthUsername /\ auth.password = s.basicAuthPassword

\* Server.requireBasicAuth: whether the request passes.
requireBasicAuth(s, auth) ==
    \/ s.basicAuthUsername = ""
    \/ auth.ok /\ auth.username = s.basicAuthUsername /\ auth.password = s.basicAuthPassword

\* The connection is open and its handler has not returned.
Open(k) == k.pc # "closed"

\* A request arrives on a new connection, or as the next one of a
\* connection whose last request was answered.
Accept(c, route, auth) ==
    /\ server.main = "serving"
    /\ c \in DOMAIN conns => ~Open(conns[c]) /\ ~conns[c].ctxDone
    /\ conns' = [d \in (DOMAIN conns) \cup {c} |->
                   IF d # c THEN conns[d]
                   ELSE IF c \in DOMAIN conns
                        THEN [NewRequest(route, auth) EXCEPT !.prev = conns[c].prev]
                        ELSE NewRequest(route, auth)]
    /\ UNCHANGED <<engine, mu, server, call>>

\* The snapshot function of main is entered: time.Now().
begun(k) ==
    [k EXCEPT !.pc = "snapshot",
              !.snapshot = [GeneratedAt |-> Now, Specs |-> << >>],
              !.overtaken = FALSE, !.stale = FALSE, !.late = {}, !.torn = FALSE]

\* healthzHandler: 200 with status and version, whoever asks.
healthzHandler(c) ==
    /\ c \in DOMAIN conns
    /\ conns[c].pc = "accepted"
    /\ conns[c].route = "/healthz"
    /\ conns' = [conns EXCEPT ![c].pc = "closed", ![c].code = 200]
    /\ UNCHANGED <<engine, mu, server, call>>

\* statusHandler up to the call of the snapshot function: 401 when
\* requireBasicAuth fails.
statusHandler(c) ==
    /\ c \in DOMAIN conns
    /\ conns[c].pc = "accepted"
    /\ conns[c].route = "/"
    /\ conns' = [conns EXCEPT ![c] =
                   IF requireBasicAuth(server, @.auth)
                   THEN begun(@)
                   ELSE [@ EXCEPT !.pc = "closed", !.code = 401]]
    /\ UNCHANGED <<engine, mu, server, call>>

\* statusEventsHandler up to the first call of sendSnapshot: 401 when
\* requireBasicAuth fails, else the headers and WriteHeader(200).
statusEventsHandler(c) ==
    /\ c \in DOMAIN conns
    /\ conns[c].pc = "accepted"
    /\ conns[c].route = "/events"
    /\ conns' = [conns EXCEPT ![c] =
                   IF requireBasicAuth(server, @.auth)
                   THEN [begun(@) EXCEPT !.code = 200]
                   ELSE [@ EXCEPT !.pc = "closed", !.code = 401]]
    /\ UNCHANGED <<engine, mu, server, call>>

\* The snapshot function gone wrong: a name the store does not hold is
\* given a first state.
SnapshotGetCreating(c) ==
    /\ c \in DOMAIN conns
    /\ conns[c].pc = "snapshot"
    /\ LET k == conns[c]
           name == parsedSpecs[Len(k.snapshot.Specs) + 1]
           read == Append(k.snapshot.Specs, specStatusOf(stateStore, name, specs[name]))
       IN  /\ conns' = [conns EXCEPT ![c] =
                          [k EXCEPT !.snapshot.Specs = read,
                                    !.pc = IF Len(read) = Len(parsedSpecs)
                                           THEN "write" ELSE "snapshot"]]
           /\ stateStore' = IF name \in DOMAIN stateStore THEN stateStore
                            ELSE Set(stateStore, name, NewSpecState)
    /\ UNCHANGED <<specs, cycleInterval, mailService, mailRecipients, ctxDone, runner, ticker,
                   task, transition, lastEdge, streak, scripts, sends, cancelledDuring,
                   mu, server, call>>

\* One turn of the loop of the snapshot function: stateStore.Get for the
\* next definition, under the lock of that call alone.
SnapshotGet(c) ==
    /\ c \in DOMAIN conns
    /\ conns[c].pc = "snapshot"
    /\ LET k == conns[c]
           name == parsedSpecs[Len(k.snapshot.Specs) + 1]
           read == Append(k.snapshot.Specs, specStatusOf(stateStore, name, specs[name]))
       IN  conns' = [conns EXCEPT ![c] =
                       [k EXCEPT !.snapshot.Specs = read,
                                 !.torn = @ \/ name \in k.late,
                                 !.pc = IF Len(read) = Len(parsedSpecs)
                                        THEN "write" ELSE "snapshot"]]
    /\ UNCHANGED <<engine, mu, server, call>>

\* The view of a handler's snapshot is written to the buffer of its
\* response. With statusHandler the snapshot is kept as the one before the
\* next if the store was not written since it began.
written(k) ==
    [k EXCEPT !.pc = "flush",
              !.body = buildStatusViewData(k.snapshot),
              !.prev = IF k.overtaken \/ k.route # "/" THEN << >> ELSE k.snapshot.Specs,
              !.snapshot = NoSnapshot,
              !.overtaken = FALSE, !.stale = FALSE, !.late = {}, !.torn = FALSE]

\* statusHandler from buildStatusViewData on: the page is written with 200.
statusWrite(c) ==
    /\ c \in DOMAIN conns
    /\ conns[c].pc = "write"
    /\ conns[c].route = "/"
    /\ conns' = [conns EXCEPT ![c] = [written(@) EXCEPT !.code = 200]]
    /\ UNCHANGED <<engine, mu, server, call>>

\* statusHandler returns and the server sends what the buffer holds.
statusFlush(c) ==
    /\ c \in DOMAIN conns
    /\ conns[c].pc = "flush"
    /\ conns[c].route = "/"
    /\ conns' = [conns EXCEPT ![c].pc = "closed", ![c].body = NoView]
    /\ UNCHANGED <<engine, mu, server, call>>

\* sendSnapshot gone wrong: a write that fails ends every session.
sendSnapshotShared(c) ==
    /\ c \in DOMAIN conns
    /\ conns[c].pc = "write"
    /\ conns[c].route = "/events"
    /\ \E ok \in BOOLEAN :
          conns' = IF ok
                   THEN [conns EXCEPT ![c] = written(@)]
                   ELSE [d \in DOMAIN conns |->
                           [conns[d] EXCEPT !.pc = "closed", !.snapshot = NoSnapshot,
                                            !.body = NoView,
                                            !.ticker = [next |-> 0, C |-> 0]]]
    /\ UNCHANGED <<engine, mu, server, call>>

\* sendSnapshot from buildStatusViewData on: the frame is written, or the
\* write fails and the handler returns.
sendSnapshot(c) ==
    /\ c \in DOMAIN conns
    /\ conns[c].pc = "write"
    /\ conns[c].route = "/events"
    /\ \E ok \in BOOLEAN :
          conns' = [conns EXCEPT ![c] =
                      IF ok
                      THEN written(@)
                      ELSE [@ EXCEPT !.pc = "closed", !.snapshot = NoSnapshot,
                                     !.ticker = [next |-> 0, C |-> 0]]]
    /\ UNCHANGED <<engine, mu, server, call>>

\* sendSnapshot: flusher.Flush() sends the frame, and the handler is back
\* at its select; after the first frame the ticker is made.
sendFlush(c) ==
    /\ c \in DOMAIN conns
    /\ conns[c].pc = "flush"
    /\ conns[c].route = "/events"
    /\ conns' = [conns EXCEPT ![c].pc = "select",
                              ![c].body = NoView,
                              ![c].ticker = IF conns[c].ticker.next = 0
                                            THEN [next |-> streamInterval, C |-> 0]
                                            ELSE @]
    /\ UNCHANGED <<engine, mu, server, call>>

\* statusEventsHandler: the select takes <-ticker.C and calls sendSnapshot.
SessionTick(c) ==
    /\ c \in DOMAIN conns
    /\ conns[c].pc = "select"
    /\ conns[c].ticker.C > 0
    /\ conns' = [conns EXCEPT ![c] = [begun(@) EXCEPT !.ticker.C = 0]]
    /\ UNCHANGED <<engine, mu, server, call>>

\* statusEventsHandler: the select takes <-r.Context().Done() and the
\* handler returns.
SessionDone(c) ==
    /\ c \in DOMAIN conns
    /\ conns[c].pc = "select"
    /\ conns[c].ctxDone
    /\ conns' = [conns EXCEPT ![c].pc = "closed", ![c].ticker = [next |-> 0, C |-> 0]]
    /\ UNCHANGED <<engine, mu, server, call>>

\* The client of a stream goes away: the server cancels the context of the
\* request.
Disconnect(c) ==
    /\ c \in DOMAIN conns
    /\ conns[c].route = "/events"
    /\ Open(conns[c])
    /\ ~conns[c].ctxDone
    /\ conns' = [conns EXCEPT ![c].ctxDone = TRUE]
    /\ UNCHANGED <<engine, mu, server, call>>

\* main: the select takes <-ctx.Done() and calls httpServer.Shutdown with
\* its timeout: the listener is closed.
Shutdown ==
    /\ ctxDone
    /\ server.main = "serving"
    /\ server' = [server EXCEPT !.main = "shutdown", !.grace = shutdownGrace]
    /\ UNCHANGED <<engine, mu, conns, call>>

\* What main leaves unchanged when the process ends.
ended == <<specs, cycleInterval, mailService, mailRecipients, stateStore, ctxDone, ticker,
           transition, lastEdge, streak, scripts, sends, cancelledDuring, mu, call>>

\* httpServer.Shutdown returns nil once no handler is under way, and main
\* returns: the process ends, and Run and its goroutines with it.
ShutdownReturns ==
    /\ server.main = "shutdown"
    /\ \A c \in DOMAIN conns : ~Open(conns[c])
    /\ server' = [server EXCEPT !.main = "returned", !.grace = 0]
    /\ runner' = "exited"
    /\ task' = [n \in Names |-> IdleTask]
    /\ UNCHANGED <<ended, conns>>

\* httpServer.Shutdown returns the error of its context with a handler
\* still under way, and main calls os.Exit(1): the process ends, and Run,
\* its goroutines and every connection with it.
ShutdownExpires ==
    /\ server.main = "shutdown"
    /\ server.grace = 0
    /\ \E c \in DOMAIN conns : Open(conns[c])
    /\ server' = [server EXCEPT !.main = "exited"]
    /\ runner' = "exited"
    /\ task' = [n \in Names |-> IdleTask]
    /\ conns' = [c \in DOMAIN conns |->
                   [conns[c] EXCEPT !.pc = "closed", !.snapshot = NoSnapshot,
                                    !.body = NoView,
                                    !.ticker = [next |-> 0, C |-> 0]]]
    /\ UNCHANGED ended

\* An instant shown in a view, a second later.
recedeShown(x) == IF x = Never THEN x ELSE Format(Recede(x.RFC3339Nano))

recedeSpecs(ss) ==
    [i \in DOMAIN ss |-> [ss[i] EXCEPT !.LastCycleStartedAt = Recede(@),
                                      !.LastCycleAt = Recede(@)]]

\* A request a second later: the ticker of a stream a second closer to its
\* next tick (a tick that finds the channel full is dropped), every instant
\* it holds a second further back.
later(k) ==
    [k EXCEPT !.ticker = IF k.ticker.next = 0 THEN @
                         ELSE IF k.ticker.next > 1
                              THEN [@ EXCEPT !.next = @ - 1]
                              ELSE [next |-> streamInterval, C |-> 1],
              !.snapshot = [GeneratedAt |-> Recede(@.GeneratedAt),
                            Specs |-> recedeSpecs(@.Specs)],
              !.prev = recedeSpecs(@),
              !.body = [@ EXCEPT !.GeneratedAt = recedeShown(@),
                                 !.Rows = [i \in DOMAIN @ |->
                                             [@[i] EXCEPT !.LastCycleStartedAt = recedeShown(@),
                                                          !.LastCycleAt = recedeShown(@)]]]]

\* A step of a handler or of main is ready. The steps of a handler take no
\* time: the clients read what is written to them at once.
Serving ==
    \/ \E c \in DOMAIN conns :
          \/ conns[c].pc \in {"accepted", "snapshot", "write", "flush"}
          \/ conns[c].pc = "select" /\ (conns[c].ctxDone \/ conns[c].ticker.C > 0)
    \/ server.main = "shutdown" /\ server.grace = 0
    \/ server.main = "shutdown" /\ \A c \in DOMAIN conns : ~Open(conns[c])

\* ------------------------------------------------------------------- time

\* time.Ticker gone wrong: its channel keeps every tick until it is taken.
tickQueued(t, d) ==
    IF ~t.running THEN t
    ELSE IF t.next > 1
         THEN [t EXCEPT !.next = @ - 1]
         ELSE [t EXCEPT !.next = d, !.C = @ + 1]

\* The time.Ticker of Run a second later: a second closer to its next tick,
\* or at it; its channel holds one tick, and a tick that finds it full is
\* dropped.
tick(t, d) ==
    IF ~t.running THEN t
    ELSE IF t.next > 1
         THEN [t EXCEPT !.next = @ - 1]
         ELSE [t EXCEPT !.next = d, !.C = 1]

\* A step of the program is ready to be taken.
Busy ==
    \/ runner \in {"start", "newTicker"}
    \/ runner = "wait" /\ \A n \in Names : task[n].pc = "idle"
    \/ runner = "select" /\ (ctxDone \/ ticker.C > 0)
    \/ \E n \in Names : task[n].pc \in {"spawned", "probed"}
    \/ \E n \in Names : task[n].pc = "probing" /\ (ctxDone \/ task[n].left = 0)
    \/ Serving

\* One second passes: requests in flight come a second closer to their
\* timeout, the tickers to their next tick (a tick that finds the channel
\* full is dropped), the timeout of Shutdown to its end, and every instant
\* held lies a second further back. Time is followed while Run or a handler
\* is under way.
Second ==
    /\ \/ runner \in {"wait", "select"}
       \/ runner = "returned" /\ \E c \in DOMAIN conns : Open(conns[c])
    /\ server.main \in {"serving", "shutdown"}
    /\ ~Busy
    /\ conns' = [c \in DOMAIN conns |-> later(conns[c])]
    /\ server' = IF server.main = "shutdown" THEN [server EXCEPT !.grace = @ - 1] ELSE server
    /\ task' = [n \in Names |->
                  IF task[n].pc = "probing"
                  THEN [task[n] EXCEPT !.left = @ - 1,
                                       !.cycleStartedAt = Recede(@)]
                  ELSE task[n]]
    /\ ticker' = tick(ticker, cycleInterval)
    /\ stateStore' = [n \in DOMAIN stateStore |->
                        [stateStore[n] EXCEPT !.LastCycleStartedAt = Recede(@),
                                              !.LastCycleAt = Recede(@)]]
    /\ UNCHANGED <<specs, cycleInterval, mailService, mailRecipients, ctxDone, runner,
                   transition, lastEdge, streak, scripts, sends, cancelledDuring, mu>>

Elapse == Second /\ UNCHANGED call

Next ==
    \/ RunFirstCycle
    \/ \E n \in Names : TaskStart(n)
    \/ \E n \in Names : ProbeReturn(n)
    \/ \E n \in Names : TaskHandle(n)
    \/ WaitReturns
    \/ NewTicker
    \/ SelectDone
    \/ SelectTick
    \/ Cancel /\ UNCHANGED cancelledDuring
    \/ Elapse

Spec == Init /\ [][Next]_vars

\* The engine with a target that is stuck: every request of "a" fails, the
\* interval is one time.NewTicker accepts, and the context is never
\* cancelled.
StuckInit == Init /\ cycleInterval > 0

ProbeFails(n) == ProbeReturn(n) /\ ~task'[n].checkOK

StuckNext ==
    \/ RunFirstCycle
    \/ \E n \in Names : TaskStart(n)
    \/ ProbeFails("a")
    \/ \E n \in Names \ {"a"} : ProbeReturn(n)
    \/ \E n \in Names : TaskHandle(n)
    \/ WaitReturns
    \/ NewTicker
    \/ SelectTick
    \/ Elapse

\* What the scheduling of the program guarantees: a step of Run or of a
\* goroutine that is ready is taken, a request returns (by its timeout at the
\* latest), and time goes on.
Fairness ==
    /\ WF_vars(RunFirstCycle)
    /\ \A n \in Names : WF_vars(TaskStart(n))
    /\ WF_vars(ProbeFails("a"))
    /\ \A n \in Names \ {"a"} : WF_vars(ProbeReturn(n))
    /\ \A n \in Names : WF_vars(TaskHandle(n))
    /\ WF_vars(WaitReturns)
    /\ WF_vars(NewTicker)
    /\ WF_vars(SelectTick)
    /\ WF_vars(Elapse)

StuckSpec == StuckInit /\ [][StuckNext]_vars /\ Fairness

\* The engine of a configuration with scripts for "a" and, in some, a mail
\* server and recipients.
Recipients == <<"ops", "dev">>

DispatchInit ==
    /\ \E i \in {0, 1}, service \in BOOLEAN, recipients \in {<< >>, Recipients} :
          /\ service \/ recipients # << >>
          /\ NewRunner(Definitions(1, 1, TRUE), i, service, recipients)
    /\ NewServer("", "")
    /\ call = NoCall

\* The context of Run is cancelled, and where Run stood is kept: in a round,
\* with a goroutine of runCycle under way, or at rest.
CancelNoted ==
    /\ Cancel
    /\ cancelledDuring' = IF \E n \in Names : task[n].pc # "idle" THEN "round" ELSE "rest"

DispatchNext ==
    \/ RunFirstCycle
    \/ \E n \in Names : TaskStart(n)
    \/ \E n \in Names : ProbeReturn(n)
    \/ \E n \in Names : TaskHandle(n)
    \/ WaitReturns
    \/ NewTicker
    \/ SelectDone
    \/ SelectTick
    \/ CancelNoted
    \/ Elapse
    \/ \E n \in Names : SendReturn(n)
    \/ \E n \in Names, action \in DOMAIN NoScripts : ScriptExit(n, action)

DispatchSpec == DispatchInit /\ [][DispatchNext]_vars

\* The engine and the status page: requests for "/" arrive on one
\* connection, one after the other, while the rounds go on. No credentials
\* are configured, the context is never cancelled, and the requests of
\* both enabled definitions have a timeout of a second.
StatusInit ==
    /\ NewRunner([Definitions(1, 1, FALSE) EXCEPT !["a"].Timeout = 1], 1, FALSE, << >>)
    /\ NewServer("", "")
    /\ call = NoCall

StatusNext ==
    \/ RunFirstCycle
    \/ \E n \in Names : TaskStart(n)
    \/ \E n \in Names : ProbeReturn(n)
    \/ \E n \in Names : TaskHandle(n)
    \/ WaitReturns
    \/ NewTicker
    \/ SelectTick
    \/ Elapse
    \/ Accept("c1", "/", NoAuth)
    \/ statusHandler("c1")
    \/ SnapshotGet("c1")
    \/ statusWrite("c1")
    \/ statusFlush("c1")

StatusSpec == StatusInit /\ [][StatusNext]_vars

\* The engine and the event stream: requests for "/events" arrive on one
\* connection while the rounds of one enabled definition go on, the client
\* goes away, the context is cancelled and main shuts the server down.
SessionInit ==
    /\ NewRunner([Definitions(1, 1, FALSE) EXCEPT !["a"].Timeout = 1,
                                                 !["b"].Disabled = TRUE],
                 1, FALSE, << >>)
    /\ NewServer("", "")
    /\ call = NoCall

SessionNext ==
    \/ RunFirstCycle
    \/ \E n \in Names : TaskStart(n)
    \/ \E n \in Names : ProbeReturn(n)
    \/ \E n \in Names : TaskHandle(n)
    \/ WaitReturns
    \/ NewTicker
    \/ SelectDone
    \/ SelectTick
    \/ Cancel /\ UNCHANGED cancelledDuring
    \/ Elapse
    \/ Accept("c1", "/events", NoAuth)
    \/ statusEventsHandler("c1")
    \/ SnapshotGet("c1")
    \/ sendSnapshot("c1")
    \/ sendFlush("c1")
    \/ SessionTick("c1")
    \/ SessionDone("c1")
    \/ Disconnect("c1")
    \/ Shutdown
    \/ ShutdownReturns
    \/ ShutdownExpires

SessionSpec == SessionInit /\ [][SessionNext]_vars

\* The engine and two streams at once; the context is never cancelled.
StreamsNext ==
    \/ RunFirstCycle
    \/ \E n \in Names : TaskStart(n)
    \/ \E n \in Names : ProbeReturn(n)
    \/ \E n \in Names : TaskHandle(n)
    \/ WaitReturns
    \/ NewTicker
    \/ SelectTick
    \/ Elapse
    \/ \E c \in Clients : Accept(c, "/events", NoAuth)
    \/ \E c \in Clients : statusEventsHandler(c)
    \/ \E c \in Clients : SnapshotGet(c)
    \/ \E c \in Clients : sendSnapshot(c)
    \/ \E c \in Clients : sendFlush(c)
    \/ \E c \in Clients : SessionTick(c)
    \/ \E c \in Clients : SessionDone(c)
    \/ \E c \in Clients : Disconnect(c)

StreamsSpec == SessionInit /\ [][StreamsNext]_vars

\* The routes of the mux.
Routes == {"/", "/healthz", "/events"}

\* What r.BasicAuth() returns for the requests that arrive: no header, the
\* configured credentials, a wrong password, a wrong user, empty credentials.
RequestAuth ==
    {NoAuth,
     [ok |-> TRUE, username |-> "eddie", password |-> "secret"],
     [ok |-> TRUE, username |-> "eddie", password |-> "wrong"],
     [ok |-> TRUE, username |-> "mallory", password |-> "secret"],
     [ok |-> TRUE, username |-> "", password |-> ""]}

\* The engine with every definition disabled and the server, without
\* credentials configured or with them, and requests of every route with
\* every kind of credentials on one connection. The context is never
\* cancelled.
GateInit ==
    /\ NewRunner([Definitions(1, 1, FALSE) EXCEPT !["a"].Disabled = TRUE,
                                                 !["b"].Disabled = TRUE],
                 1, FALSE, << >>)
    /\ \/ NewServer("", "")
       \/ NewServer("eddie", "secret")
    /\ call = NoCall

GateNext ==
    \/ RunFirstCycle
    \/ WaitReturns
    \/ NewTicker
    \/ SelectTick
    \/ Elapse
    \/ \E route \in Routes, auth \in RequestAuth : Accept("c1", route, auth)
    \/ healthzHandler("c1")
    \/ statusHandler("c1")
    \/ statusWrite("c1")
    \/ statusFlush("c1")
    \/ statusEventsHandler("c1")
    \/ SnapshotGet("c1")
    \/ sendSnapshot("c1")
    \/ sendFlush("c1")
    \/ SessionTick("c1")
    \/ SessionDone("c1")
    \/ Disconnect("c1")

GateSpec == GateInit /\ [][GateNext]_vars

\* The engine with the goroutines of runCycle followed call by call: the
\* Get and the Set of markCycleStarted and of handleCycleResult are steps of
\* their own, and what the goroutine holds between them (currentState, ok)
\* is kept with its task. Next to it, call holds the state machine called
\* directly on the outcomes of each name, one per round in the order of the
\* rounds: state after the staleness guard, as handleCycleResult calls it,
\* pure without the guard.

\* The store as a goroutine found it for a name: what its Get returned.
storeAsRead(n, got) ==
    IF got.ok THEN Set([m \in {} |-> NewSpecState], n, got.state)
    ELSE [m \in {} |-> NewSpecState]

\* markCycleStarted gone wrong: it stores a new state whatever the store
\* holds.
MarkGetNew(n) ==
    /\ task[n].pc = "spawned"
    /\ task' = [task EXCEPT ![n] = [pc |-> "marking", cycleStartedAt |-> Now,
                                    checkOK |-> TRUE, left |-> 0,
                                    got |-> Get([m \in {} |-> NewSpecState], n)]]
    /\ UNCHANGED <<specs, cycleInterval, mailService, mailRecipients, stateStore, ctxDone,
                   runner, ticker, transition, lastEdge, streak, scripts, sends,
                   cancelledDuring, call, web>>

\* The goroutine of runCycle: time.Now() and the stateStore.Get of
\* markCycleStarted.
MarkGet(n) ==
    /\ task[n].pc = "spawned"
    /\ task' = [task EXCEPT ![n] = [pc |-> "marking", cycleStartedAt |-> Now,
                                    checkOK |-> TRUE, left |-> 0,
                                    got |-> Get(stateStore, n)]]
    /\ UNCHANGED <<specs, cycleInterval, mailService, mailRecipients, stateStore, ctxDone,
                   runner, ticker, transition, lastEdge, streak, scripts, sends,
                   cancelledDuring, call, web>>

\* The goroutine of runCycle: the stateStore.Set of markCycleStarted, and the
\* request of validateHTTPSpec is under way.
MarkSet(n) ==
    /\ task[n].pc = "marking"
    /\ stateStore' = Set(stateStore, n,
                         markCycleStarted(storeAsRead(n, task[n].got), n, task[n].cycleStartedAt)[n])
    /\ task' = [task EXCEPT ![n] = [pc |-> "probing", cycleStartedAt |-> task[n].cycleStartedAt,
                                    checkOK |-> TRUE, left |-> reqTimeout(specs[n])]]
    /\ conns' = overtake(conns, n)
    /\ UNCHANGED <<specs, cycleInterval, mailService, mailRecipients, ctxDone, runner, ticker,
                   transition, lastEdge, streak, scripts, sends, cancelledDuring, call,
                   mu, server>>

\* The goroutine of runCycle: handleCycleResult up to its stateStore.Get.
HandleGet(n) ==
    /\ task[n].pc = "probed"
    /\ task' = [task EXCEPT ![n] = [pc |-> "handling", cycleStartedAt |-> task[n].cycleStartedAt,
                                    checkOK |-> task[n].checkOK, left |-> 0,
                                    got |-> Get(stateStore, n)]]
    /\ UNCHANGED <<specs, cycleInterval, mailService, mailRecipients, stateStore, ctxDone,
                   runner, ticker, transition, lastEdge, streak, scripts, sends,
                   cancelledDuring, call, web>>

\* The state machine called on the next outcome of a name: after the
\* staleness guard, with the instant of the outcome, and without it.
folded(n, success, cycleCompletedAt) ==
    LET failureThreshold == thresholdOrDefault(specs[n].Cycles.Failure, 1)
        successThreshold == thresholdOrDefault(specs[n].Cycles.Success, 1)
        guarded == resetStaleConsecutiveState(call.state[n], cycleCompletedAt, cycleInterval)
    IN  [call EXCEPT
            !.state[n] = [applyCycleResult(guarded, success, failureThreshold,
                                           successThreshold).state
                             EXCEPT !.LastCycleAt = cycleCompletedAt],
            !.pure[n] = applyCycleResult(@, success, failureThreshold, successThreshold).state]

\* validateHTTPSpec returns, while the failure counter of the state machine
\* called directly is under its cap as well.
FoldProbeReturn(n) ==
    /\ ProbeReturn(n)
    /\ ~task'[n].checkOK => call.pure[n].ConsecutiveFailures < MaxCount

\* The goroutine of runCycle: handleCycleResult from its stateStore.Get on.
HandleSet(n) ==
    /\ task[n].pc = "handling"
    /\ handleCycleResult(n, storeAsRead(n, task[n].got))
    /\ call' = folded(n, task[n].checkOK, Now)

\* One second passes, between the steps of the goroutines.
FoldElapse ==
    /\ \A n \in Names : task[n].pc \notin {"marking", "handling"}
    /\ Second
    /\ call' = [call EXCEPT !.state = [n \in Names |-> [@[n] EXCEPT !.LastCycleAt = Recede(@)]]]

\* The thresholds of "a" are 2; its requests take up to the default timeout,
\* longer than twice the interval.
FoldInit ==
    /\ NewRunner(Definitions(2, 2, FALSE), 1, FALSE, << >>)
    /\ NewServer("", "")
    /\ call = [op |-> "fold",
               state |-> [n \in Names |-> NewSpecState],
               pure |-> [n \in Names |-> NewSpecState]]

FoldNext ==
    \/ RunFirstCycle
    \/ \E n \in Names : MarkGet(n)
    \/ \E n \in Names : MarkSet(n)
    \/ \E n \in Names : FoldProbeReturn(n)
    \/ \E n \in Names : HandleGet(n)
    \/ \E n \in Names : HandleSet(n)
    \/ WaitReturns
    \/ NewTicker
    \/ SelectTick
    \/ FoldElapse

FoldSpec == FoldInit /\ [][FoldNext]_vars

\* The engine with handleCycleResult followed in two steps: up to its
\* stateStore.Set, and from its switch on the transition. "a" names both
\* scripts, a mail server and two recipients are configured.

\* handleCycleResult gone wrong: the state is not stored before the switch.
HandleStoreLater(n) ==
    /\ task[n].pc = "probed"
    /\ LET res == cycleResult(stateStore, n, specs[n], task[n].checkOK,
                              task[n].cycleStartedAt, Now, cycleInterval)
       IN  /\ transition' = [transition EXCEPT ![n] = res.transition]
           /\ lastEdge' = [lastEdge EXCEPT ![n] =
                             IF res.transition = transitionNone THEN @ ELSE res.transition]
    /\ task' = [task EXCEPT ![n].pc = "stored"]
    /\ UNCHANGED <<specs, cycleInterval, mailService, mailRecipients, stateStore, ctxDone,
                   runner, ticker, streak, scripts, sends, cancelledDuring, call, web>>

\* The goroutine of runCycle: handleCycleResult up to its stateStore.Set.
HandleStore(n) ==
    /\ task[n].pc = "probed"
    /\ storeCycleResult(n, stateStore)
    /\ task' = [task EXCEPT ![n].pc = "stored"]
    /\ UNCHANGED <<specs, cycleInterval, mailService, mailRecipients, ctxDone, runner,
                   ticker, scripts, sends, cancelledDuring, call, mu, server>>

\* The goroutine of runCycle: handleCycleResult from its switch on.
HandleDispatch(n) ==
    /\ task[n].pc = "stored"
    /\ dispatchTransition(n, transition[n])
    /\ UNCHANGED <<specs, cycleInterval, mailService, mailRecipients, stateStore, ctxDone,
                   runner, ticker, transition, lastEdge, streak, cancelledDuring, call, web>>

\* One second passes, between the steps of the goroutines.
OrderElapse ==
    /\ \A n \in Names : task[n].pc # "stored"
    /\ Elapse

OrderInit ==
    /\ NewRunner(Definitions(1, 1, TRUE), 1, TRUE, Recipients)
    /\ NewServer("", "")
    /\ call = NoCall

OrderNext ==
    \/ RunFirstCycle
    \/ \E n \in Names : TaskStart(n)
    \/ \E n \in Names : ProbeReturn(n)
    \/ \E n \in Names : HandleStore(n)
    \/ \E n \in Names : HandleDispatch(n)
    \/ \E n \in Names : SendReturn(n)
    \/ \E n \in Names, action \in DOMAIN NoScripts : ScriptExit(n, action)
    \/ WaitReturns
    \/ NewTicker
    \/ SelectTick
    \/ OrderElapse

OrderSpec == OrderInit /\ [][OrderNext]_vars

\* ------------------------------------------------------------ direct calls
\* The functions of the package called on their own, the way the package's
\* tests call them, over every input of a bounded domain.

\* Largest absolute value of a cycles.failure / cycles.success setting.
MaxConfig == 3
ConfigInts == (-MaxConfig)..MaxConfig

\* The instants a clock reading takes: after ZeroTime, within the range of
\* the monotonic clock.
ClockInstants == 1..MaxDuration

\* The per-target states handed to resetStaleConsecutiveState.
GuardInputs ==
    {SpecState(st, f, s, startedAt, completedAt) :
        st \in {StatusHealthy, StatusFailing},
        f \in {0, MaxCount}, s \in {0, MaxCount},
        startedAt \in {ZeroTime, 1},
        completedAt \in {ZeroTime} \cup ClockInstants}

\* The thresholds of the threshold walk.
WalkThresholds == 1..(MaxThreshold + 2)

UnitInit ==
    /\ NewRunner(Definitions(0, 0, FALSE), 1, FALSE, << >>)
    /\ NewServer("", "")
    /\ call = NoCall

\* handleCycleResult resolves the thresholds of a definition.
CallThresholds ==
    /\ call = NoCall
    /\ UNCHANGED <<engine, web>>
    /\ \E f \in ConfigInts, s \in ConfigInts :
       LET res == cycleResult([n \in {} |-> NewSpecState], "a",
                              Definition(FALSE, f, s, 0), TRUE, Now, Now, 1)
       IN  call' = [op |-> "thresholds", failure |-> f, success |-> s,
                    failureThreshold |-> res.failureThreshold,
                    successThreshold |-> res.successThreshold]

CallResetStale ==
    /\ call = NoCall
    /\ UNCHANGED <<engine, web>>
    /\ \E current \in GuardInputs, cycleAt \in ClockInstants, interval \in Durations :
       call' = [op |-> "resetStaleConsecutiveState",
                current |-> current, cycleAt |-> cycleAt, cycleInterval |-> interval,
                result |-> resetStaleConsecutiveState(current, cycleAt, interval)]

\* A walk starts from state.SpecState{Status: state.StatusHealthy}.
WalkStart ==
    /\ call = NoCall
    /\ UNCHANGED <<engine, web>>
    /\ \E f \in WalkThresholds, s \in WalkThresholds :
       call' = [op |-> "walk", failureThreshold |-> f, successThreshold |-> s,
                steps |-> 0, state |-> NewSpecState, transition |-> transitionNone]

\* The next call of applyCycleResult of a walk: failureThreshold failures,
\* then successThreshold successes.
WalkStep ==
    /\ call.op = "walk"
    /\ UNCHANGED <<engine, web>>
    /\ call.steps < call.failureThreshold + call.successThreshold
    /\ LET applied == applyCycleResult(call.state,
                                       call.steps >= call.failureThreshold,
                                       call.failureThreshold, call.successThreshold)
       IN  call' = [call EXCEPT !.steps = @ + 1,
                                !.state = applied.state,
                                !.transition = applied.transition]

\* The states a store holds when the snapshot function is called.
ViewInputs ==
    {SpecState(status, failures, successes, startedAt, completedAt) :
        status \in {StatusHealthy, StatusFailing},
        failures \in 0..1, successes \in 0..1,
        startedAt \in {ZeroTime, 1, Now}, completedAt \in {ZeroTime, 1, Now}}

\* The stores the snapshot function is called over: "a" with any state or
\* none, "b" with a first state or none.
ViewStores ==
    {[n \in {} |-> NewSpecState]}
    \cup {Set([n \in {} |-> NewSpecState], "a", a) : a \in ViewInputs}
    \cup {Set([n \in {} |-> NewSpecState], "b", NewSpecState)}
    \cup {Set(Set([n \in {} |-> NewSpecState], "a", a), "b", NewSpecState) : a \in ViewInputs}

\* The snapshot function of main called, and its result handed to
\* buildStatusViewData.
CallSnapshot ==
    /\ call = NoCall
    /\ UNCHANGED <<engine, web>>
    /\ \E store \in ViewStores :
          call' = [op |-> "snapshot", store |-> store,
                   data |-> buildStatusViewData(statusSnapshot(store, specs, Now))]

UnitNext ==
    \/ CallThresholds
    \/ CallResetStale
    \/ WalkStart
    \/ WalkStep
    \/ CallSnapshot

UnitSpec == UnitInit /\ [][UnitNext]_vars

\* ------------------------------------------------------------- spec package
\* Parse called on its own over the documents its files hold. A string is
\* the sequence of its characters.

\* Longest http.name of a document.
MaxNameLen == 2
\* Largest number of documents the files hold.
MaxDocs == 2

\* The characters of the names: a white space and two letters.
NameChars == {" ", "a", "b"}

\* unicode.IsSpace
IsSpace(ch) == ch = " "

\* strings.TrimSpace: the string without its leading and trailing white space.
TrimSpace(s) ==
    LET inked == {i \in 1..Len(s) : ~IsSpace(s[i])}
    IN  IF inked = {} THEN << >>
        ELSE SubSeq(s, CHOOSE i \in inked : \A j \in inked : i <= j,
                       CHOOSE i \in inked : \A j \in inked : i >= j)

NoError == [error |-> "nil"]

\* The key validateSpecNames keeps a name under: "http:" + name.
identity(name) == <<"http:">> \o name

\* validateSpecNames gone wrong: the names are compared as they are written.
validateSpecNamesUntrimmed(docs) ==
    LET bad == {i \in 1..Len(docs) :
                   \/ docs[i].Name = << >>
                   \/ \E j \in 1..(i - 1) : docs[j].Name = docs[i].Name}
    IN  IF bad = {} THEN NoError ELSE [error |-> "name"]

\* validateSpecNames: the error of the first document whose trimmed name is
\* empty or was seen in a document before it.
validateSpecNames(docs) ==
    LET seen[i \in 0..Len(docs)] ==
            IF i = 0 THEN {}
            ELSE seen[i - 1] \cup {identity(TrimSpace(docs[i].Name))}
        bad == {i \in 1..Len(docs) :
                   \/ TrimSpace(docs[i].Name) = << >>
                   \/ identity(TrimSpace(docs[i].Name)) \in seen[i - 1]}
        first == CHOOSE i \in bad : \A j \in bad : i <= j
    IN  IF bad = {} THEN NoError
        ELSE IF TrimSpace(docs[first].Name) = << >>
             THEN [error |-> "empty http.name", at |-> first]
             ELSE [error |-> "duplicate http.name", at |-> first]

\* Parse: loaded is what resolving the path expression and decoding the files
\* gave, an error or the documents in the order of the sorted paths.
Parse(loaded) ==
    IF loaded.err # NoError
    THEN [specs |-> << >>, err |-> loaded.err]
    ELSE IF validateSpecNames(loaded.specs) # NoError
         THEN [specs |-> << >>, err |-> validateSpecNames(loaded.specs)]
         ELSE [specs |-> loaded.specs, err |-> NoError]

\* The names a document carries.
DocNames == UNION {[1..n -> NameChars] : n \in 0..MaxNameLen}

\* spec.Spec, reduced to its name and whether it is disabled.
Docs == {[Name |-> name, Disabled |-> disabled] : name \in DocNames, disabled \in BOOLEAN}

\* What the files hold.
Loaded ==
    {[specs |-> << >>, err |-> [error |-> "no spec files matched"]]}
    \cup {[specs |-> docs, err |-> NoError] :
             docs \in UNION {[1..n -> Docs] : n \in 0..MaxDocs}}

CallParse ==
    /\ call = NoCall
    /\ UNCHANGED <<engine, web>>
    /\ \E loaded \in Loaded :
          call' = [op |-> "Parse", loaded |-> loaded, result |-> Parse(loaded)]

ParseSpec == UnitInit /\ [][CallParse]_vars

\* ---------------------------------------------------------- monitor: probes
\* validateHTTPSpec called on its own: a definition, and what the network
\* and the server give for its request. A body is the sequence of its
\* characters.

\* spec.HTTPSpec, reduced to what validateHTTPSpec reads of it (the timeout
\* apart).
HTTPSpec(url, method, code, header, exact, contains) ==
    [URL |-> url,
     Method |-> method,
     Expect |-> [Code |-> code,
                 Header |-> header,
                 Body |-> [Exact |-> exact, Contains |-> contains]]]

\* url.Parse over the URLs of the definitions: the error, scheme and host.
urlParse(rawURL) ==
    CASE rawURL = "http://example.com" -> [err |-> FALSE, Scheme |-> "http", Host |-> "example.com"]
      [] rawURL = "example.com/health" -> [err |-> FALSE, Scheme |-> "", Host |-> ""]
      [] OTHER                         -> [err |-> TRUE, Scheme |-> "", Host |-> ""]

\* nethttp.NewRequestWithContext: whether it takes the method.
validMethod(method) == method \in {"GET", "POST"}

\* nethttp.Header.Get: the first value of a header, "" when it has none.
HeaderGet(header, name) ==
    IF name \in DOMAIN header /\ header[name] # << >> THEN header[name][1] ELSE ""

\* strings.Contains
Contains(s, substr) ==
    \E i \in 0..(Len(s) - Len(substr)) : SubSeq(s, i + 1, i + Len(substr)) = substr

\* validateHTTPSpec gone wrong: with an exact body configured the substring
\* is not looked for.
validateExactOnly(parsedSpec, world) ==
    LET targetURL == urlParse(parsedSpec.URL)
        method == IF parsedSpec.Method = "" THEN "GET" ELSE parsedSpec.Method
        expect == parsedSpec.Expect
        resp == world.resp
    IN  IF targetURL.err THEN "parse url"
        ELSE IF targetURL.Scheme = "" \/ targetURL.Host = "" THEN "url must include scheme and host"
        ELSE IF ~validMethod(method) THEN "build request"
        ELSE IF world.doErr THEN "perform request"
        ELSE IF world.readErr THEN "read response body"
        ELSE IF expect.Code > 0 /\ resp.StatusCode # expect.Code THEN "unexpected status code"
        ELSE IF \E h \in DOMAIN expect.Header : HeaderGet(resp.Header, h) # expect.Header[h]
             THEN "unexpected header"
        ELSE IF expect.Body.Exact # << >>
             THEN IF resp.Body # expect.Body.Exact THEN "unexpected body exact match" ELSE "nil"
        ELSE IF expect.Body.Contains # << >> /\ ~Contains(resp.Body, expect.Body.Contains)
             THEN "response body does not contain"
        ELSE "nil"

\* validateHTTPSpec: the error it returns ("nil": none), by the text the
\* error begins with.
validateHTTPSpec(parsedSpec, world) ==
    LET targetURL == urlParse(parsedSpec.URL)
        method == IF parsedSpec.Method = "" THEN "GET" ELSE parsedSpec.Method
        expect == parsedSpec.Expect
        resp == world.resp
    IN  IF targetURL.err THEN "parse url"
        ELSE IF targetURL.Scheme = "" \/ targetURL.Host = "" THEN "url must include scheme and host"
        ELSE IF ~validMethod(method) THEN "build request"
        ELSE IF world.doErr THEN "perform request"
        ELSE IF world.readErr THEN "read response body"
        ELSE IF expect.Code > 0 /\ resp.StatusCode # expect.Code THEN "unexpected status code"
        ELSE IF \E h \in DOMAIN expect.Header : HeaderGet(resp.Header, h) # expect.Header[h]
             THEN "unexpected header"
        ELSE IF expect.Body.Exact # << >> /\ resp.Body # expect.Body.Exact
             THEN "unexpected body exact match"
        ELSE IF expect.Body.Contains # << >> /\ ~Contains(resp.Body, expect.Body.Contains)
             THEN "response body does not contain"
        ELSE "nil"

\* The expectations of the definitions: expect.header ...
ExpectHeaders ==
    {<< >>,
     [h \in {"X-App"} |-> "eddie"],
     [h \in {"X-App", "X-Env"} |-> IF h = "X-App" THEN "eddie" ELSE ""]}

\* ... and expect.body.exact ...
ExpectExact == {<< >>, <<"o", "k">>}

\* ... and expect.body.contains.
ExpectContains == {<< >>, <<"k">>, <<"!">>}

\* The definitions handed to validateHTTPSpec.
ProbeSpecs ==
    {HTTPSpec(url, method, code, header, exact, contains) :
        url \in {"http://example.com", "example.com/health", "://example.com"},
        method \in {"", "PO ST"},
        code \in {-1, 0, 200},
        header \in ExpectHeaders,
        exact \in ExpectExact,
        contains \in ExpectContains}

\* The answers of the server.
Responses ==
    {[StatusCode |-> code, Header |-> header, Body |-> body] :
        code \in {200, 503},
        header \in {<< >>,
                    [h \in {"X-App"} |-> <<"eddie", "other">>],
                    [h \in {"X-App"} |-> <<"other", "eddie">>]},
        body \in {<< >>, <<"o", "k">>, <<"o", "k", "!">>}}

\* What happens to a request: client.Do fails or gives a response, and
\* reading the body of the response fails or gives it all.
Worlds ==
    {[doErr |-> doErr, readErr |-> readErr, resp |-> resp] :
        doErr \in BOOLEAN, readErr \in BOOLEAN, resp \in Responses}

CallValidate ==
    /\ call = NoCall
    /\ UNCHANGED <<engine, web>>
    /\ \E parsedSpec \in ProbeSpecs, world \in Worlds :
          call' = [op |-> "validateHTTPSpec", parsedSpec |-> parsedSpec, world |-> world,
                   err |-> validateHTTPSpec(parsedSpec, world)]

ProbeSpec == UnitInit /\ [][CallValidate]_vars

\* ------------------------------------------------- the store under its lock
\* InMemoryStore called from several goroutines at once, the way the
\* goroutines of runCycle and the snapshot function of main call it. A call
\* is followed step by step: the lock, the value copied a part at a time,
\* the unlock.

\* The goroutines that call Set and the one that calls Get.
Setters == {"w1", "w2"}
Getters == {"r1"}

Keys == {"a", "b"}

\* The values the setters store.
Stored ==
    {SpecState(StatusHealthy, 0, 1, 1, 1), SpecState(StatusFailing, 1, 0, 2, 2)}

\* The zero value of state.SpecState.
ZeroSpecState == SpecState("", 0, 0, ZeroTime, ZeroTime)

\* A struct is copied in parts, not at once: status and counters, then the
\* two instants.
FirstPart == {"Status", "ConsecutiveFailures", "ConsecutiveSuccesses"}
LastPart == {"LastCycleStartedAt", "LastCycleAt"}

copyPart(dst, src, part) ==
    [f \in DOMAIN dst |-> IF f \in part THEN src[f] ELSE dst[f]]

IdleCaller == [pc |-> "idle", specName |-> "", specState |-> ZeroSpecState, ok |-> FALSE]

\* sync.RWMutex.RLock gone wrong: a reader does not wait for the writer.
rlockAlways(m) == TRUE

\* sync.RWMutex: RLock waits while a writer holds the lock, Lock while
\* anyone holds it.
rlockFree(m) == ~m.writer
lockFree(m) == ~m.writer /\ m.readers = 0

\* Everything but the store, its lock and the callers.
aside == <<specs, cycleInterval, mailService, mailRecipients, ctxDone, runner, ticker,
           task, transition, lastEdge, streak, scripts, sends, cancelledDuring,
           conns, server>>

StoreInit ==
    /\ NewRunner(Definitions(1, 1, FALSE), 1, FALSE, << >>)
    /\ NewServer("", "")
    /\ call = [op |-> "concurrent",
               callers |-> [p \in Setters \cup Getters |-> IdleCaller],
               completed |-> stateStore]

\* A goroutine calls Set.
SetCalled(p) ==
    /\ call.callers[p].pc = "idle"
    /\ \E specName \in Keys, specState \in Stored :
          call' = [call EXCEPT !.callers[p] =
                      [pc |-> "Lock", specName |-> specName,
                       specState |-> specState, ok |-> FALSE]]
    /\ UNCHANGED <<stateStore, mu, aside>>

\* s.mu.Lock()
SetLock(p) ==
    /\ call.callers[p].pc = "Lock"
    /\ lockFree(mu)
    /\ mu' = [mu EXCEPT !.writer = TRUE]
    /\ call' = [call EXCEPT !.callers[p].pc = "store"]
    /\ UNCHANGED <<stateStore, aside>>

\* s.states[specName] = specState, the first part and then the last.
SetStore(p) ==
    LET c == call.callers[p]
        part == IF c.pc = "store" THEN FirstPart ELSE LastPart
    IN  /\ c.pc \in {"store", "stored"}
        /\ stateStore' = Set(stateStore, c.specName,
                             copyPart(Get(stateStore, c.specName).state, c.specState, part))
        /\ call' = [call EXCEPT !.callers[p].pc =
                       IF c.pc = "store" THEN "stored" ELSE "Unlock"]
        /\ UNCHANGED <<mu, aside>>

\* The deferred s.mu.Unlock(): Set returns.
SetUnlock(p) ==
    LET c == call.callers[p]
    IN  /\ c.pc = "Unlock"
        /\ mu' = [mu EXCEPT !.writer = FALSE]
        /\ call' = [call EXCEPT !.callers[p] = IdleCaller,
                                !.completed = Set(@, c.specName, c.specState)]
        /\ UNCHANGED <<stateStore, aside>>

\* A goroutine calls Get, or calls it again and drops what the last call
\* returned.
GetCalled(p) ==
    /\ call.callers[p].pc \in {"idle", "returned"}
    /\ \E specName \in Keys :
          call' = [call EXCEPT !.callers[p] =
                      [IdleCaller EXCEPT !.pc = "RLock", !.specName = specName]]
    /\ UNCHANGED <<stateStore, mu, aside>>

\* s.mu.RLock()
GetRLock(p) ==
    /\ call.callers[p].pc = "RLock"
    /\ rlockFree(mu)
    /\ mu' = [mu EXCEPT !.readers = @ + 1]
    /\ call' = [call EXCEPT !.callers[p].pc = "load"]
    /\ UNCHANGED <<stateStore, aside>>

\* state, ok := s.states[specName], the first part and then the last.
GetLoad(p) ==
    LET c == call.callers[p]
        found == Get(stateStore, c.specName)
    IN  /\ c.pc \in {"load", "loaded"}
        /\ call' = [call EXCEPT !.callers[p] =
                      IF c.pc = "load"
                      THEN [c EXCEPT !.pc = "loaded", !.ok = found.ok,
                                     !.specState = copyPart(@, found.state, FirstPart)]
                      ELSE [c EXCEPT !.pc = "RUnlock",
                                     !.specState = copyPart(@, found.state, LastPart)]]
        /\ UNCHANGED <<stateStore, mu, aside>>

\* The deferred s.mu.RUnlock(): Get returns state and ok.
GetRUnlock(p) ==
    /\ call.callers[p].pc = "RUnlock"
    /\ mu' = [mu EXCEPT !.readers = @ - 1]
    /\ call' = [call EXCEPT !.callers[p].pc = "returned"]
    /\ UNCHANGED <<stateStore, aside>>

StoreNext ==
    \/ \E p \in Setters : SetCalled(p)
    \/ \E p \in Setters : SetLock(p)
    \/ \E p \in Setters : SetStore(p)
    \/ \E p \in Setters : SetUnlock(p)
    \/ \E p \in Getters : GetCalled(p)
    \/ \E p \in Getters : GetRLock(p)
    \/ \E p \in Getters : GetLoad(p)
    \/ \E p \in Getters : GetRUnlock(p)

StoreSpec == StoreInit /\ [][StoreNext]_vars

\* ------------------------------------------------------------------ claims

\* The step of a name's goroutine that runs handleCycleResult.
HandleStep(n) == task[n].pc = "probed" /\ task'[n].pc = "idle"

\* The thresholds in force for a name.
FailureThresholdOf(n) == Max(specs[n].Cycles.Failure, 1)
SuccessThresholdOf(n) == Max(specs[n].Cycles.Success, 1)

\* The state stored for a name was completed longer ago than twice the
\* cycle interval.
StaleGap(n) ==
    /\ n \in DOMAIN stateStore
    /\ ~IsZero(stateStore[n].LastCycleAt)
    /\ cycleInterval > 0
    /\ Now - stateStore[n].LastCycleAt > 2 * cycleInterval

\* C1: in every state the store holds, for any target, a non-zero
\* consecutiveFailures comes with a zero consecutiveSuccesses and a non-zero
\* consecutiveSuccesses with a zero consecutiveFailures.
C1_CountersExclusive ==
    \A n \in DOMAIN stateStore :
       /\ stateStore[n].ConsecutiveFailures > 0 => stateStore[n].ConsecutiveSuccesses = 0
       /\ stateStore[n].ConsecutiveSuccesses > 0 => stateStore[n].ConsecutiveFailures = 0

\* Both kinds of non-zero counter are stored: "a" counts successes while
\* failing, "b" counts failures.
C1_Witness ==
    /\ "a" \in DOMAIN stateStore /\ "b" \in DOMAIN stateStore
    /\ stateStore["a"].ConsecutiveSuccesses > 0
    /\ stateStore["b"].ConsecutiveFailures > 0

\* C3: transitions are edge-triggered.  Whenever handleCycleResult runs for
\* a target, it gets transitionFailure exactly when the stored status goes
\* from healthy to failing and transitionRecovery exactly when it goes from
\* failing to healthy; a transitionFailure follows no earlier transition or
\* a transitionRecovery, a transitionRecovery follows a transitionFailure;
\* and a failure of a failing target adds one to consecutiveFailures (as the
\* staleness guard left it) and gets transitionNone.
C3_EdgeTriggered ==
    [][\A n \in Names : HandleStep(n) =>
         LET old == stateStore[n]
             new == stateStore'[n]
         IN  /\ (transition'[n] = transitionFailure) <=>
                   (old.Status = StatusHealthy /\ new.Status = StatusFailing)
             /\ (transition'[n] = transitionRecovery) <=>
                   (old.Status = StatusFailing /\ new.Status = StatusHealthy)
             /\ transition'[n] = transitionFailure =>
                   lastEdge[n] \in {transitionNone, transitionRecovery}
             /\ transition'[n] = transitionRecovery =>
                   lastEdge[n] = transitionFailure
             /\ (old.Status = StatusFailing /\ ~task[n].checkOK) =>
                   /\ transition'[n] = transitionNone
                   /\ new.Status = StatusFailing
                   /\ new.ConsecutiveFailures =
                         (IF StaleGap(n) THEN 0 ELSE old.ConsecutiveFailures) + 1
      ]_vars

\* "a" is failing and has failed twice more since it entered failing, the
\* last time with transitionNone; "b" has just recovered.
C3_Witness ==
    /\ "a" \in DOMAIN stateStore
    /\ stateStore["a"].Status = StatusFailing
    /\ stateStore["a"].ConsecutiveFailures = 2
    /\ transition["a"] = transitionNone
    /\ "b" \in DOMAIN stateStore
    /\ transition["b"] = transitionRecovery

\* C4: handleCycleResult gets transitionFailure for a target only when the
\* outcome it applies completes a run of at least failureThreshold failures
\* with no success in between, and a success of a healthy target leaves
\* consecutiveFailures at 0.
C4_FailureNeedsRun ==
    [][\A n \in Names : HandleStep(n) =>
         /\ transition'[n] = transitionFailure =>
               /\ ~task[n].checkOK
               /\ ~streak'[n].ok
               /\ streak'[n].len >= FailureThresholdOf(n)
         /\ (stateStore[n].Status = StatusHealthy /\ task[n].checkOK) =>
               /\ stateStore'[n].ConsecutiveFailures = 0
               /\ stateStore'[n].Status = StatusHealthy
      ]_vars

\* "a" needs two failures and has just entered failing on the second
\* failure in a row.
C4_Witness ==
    /\ specs["a"].Cycles.Failure = 2
    /\ transition["a"] = transitionFailure
    /\ streak["a"] = [ok |-> FALSE, len |-> 2]

\* C5: handleCycleResult gets transitionRecovery for a target only when the
\* outcome it applies completes a run of at least successThreshold successes
\* with no failure in between; a failure of a failing target leaves
\* consecutiveSuccesses at 0; and a recovery leaves consecutiveSuccesses at 0.
C5_RecoveryNeedsRun ==
    [][\A n \in Names : HandleStep(n) =>
         /\ transition'[n] = transitionRecovery =>
               /\ task[n].checkOK
               /\ streak'[n].ok
               /\ streak'[n].len >= SuccessThresholdOf(n)
               /\ stateStore'[n].ConsecutiveSuccesses = 0
         /\ (stateStore[n].Status = StatusFailing /\ ~task[n].checkOK) =>
               stateStore'[n].ConsecutiveSuccesses = 0
      ]_vars

\* "a" needs two successes to recover and has just recovered.
C5_Witness ==
    /\ specs["a"].Cycles.Success = 2
    /\ transition["a"] = transitionRecovery
    /\ streak["a"] = [ok |-> TRUE, len |-> 2]

\* C8: the staleness guard runs before the state machine.  When
\* handleCycleResult applies an outcome to a state completed longer ago than
\* twice the cycle interval, and the threshold that outcome counts towards
\* is at least 2, it gets transitionNone, whatever the stored counters are.
C8_NoTransitionAfterGap ==
    [][\A n \in Names :
         (/\ HandleStep(n)
          /\ StaleGap(n)
          /\ task[n].checkOK => SuccessThresholdOf(n) >= 2
          /\ ~task[n].checkOK => FailureThresholdOf(n) >= 2)
         => /\ transition'[n] = transitionNone
            /\ stateStore'[n].Status = stateStore[n].Status
      ]_vars

\* "a" needs two failures, has failed twice in a row and is still healthy
\* with one failure counted: the guard has cleared the first one.
C8_Witness ==
    /\ specs["a"].Cycles.Failure = 2
    /\ "a" \in DOMAIN stateStore
    /\ stateStore["a"].Status = StatusHealthy
    /\ stateStore["a"].ConsecutiveFailures = 1
    /\ streak["a"] = [ok |-> FALSE, len |-> 2]

\* C9: a target stuck failing is eventually reported as failing.  When the
\* requests of "a" keep returning, round after round, and every one of them
\* fails, the stored status of "a" is failing from some round on.
C9_StuckFailingReported ==
    (/\ []<>(task["a"].pc = "probed")
     /\ [](task["a"].pc = "probed" => ~task["a"].checkOK))
    => <>[]("a" \in DOMAIN stateStore /\ stateStore["a"].Status = StatusFailing)

\* C10 as the data model words it: in every stored state exactly one of
\* consecutiveFailures and consecutiveSuccesses is non-zero.
C10_ExactlyOneNonZero ==
    \A n \in DOMAIN stateStore :
       (stateStore[n].ConsecutiveFailures # 0) # (stateStore[n].ConsecutiveSuccesses # 0)

\* C10, amended: in every stored state at most one of consecutiveFailures
\* and consecutiveSuccesses is non-zero, and both are zero in the state of a
\* target no cycle of which has completed.
C10_AtMostOneNonZero ==
    \A n \in DOMAIN stateStore :
       /\ ~(stateStore[n].ConsecutiveFailures # 0 /\ stateStore[n].ConsecutiveSuccesses # 0)
       /\ IsZero(stateStore[n].LastCycleAt) =>
             (stateStore[n].ConsecutiveFailures = 0 /\ stateStore[n].ConsecutiveSuccesses = 0)

\* One stored state has a non-zero counter, another has completed a cycle
\* and has none.
C10_Witness ==
    /\ "a" \in DOMAIN stateStore /\ "b" \in DOMAIN stateStore
    /\ stateStore["a"].ConsecutiveFailures # 0
    /\ ~IsZero(stateStore["b"].LastCycleAt)
    /\ stateStore["b"].ConsecutiveFailures = 0
    /\ stateStore["b"].ConsecutiveSuccesses = 0

\* C2: the hysteresis walk.  For thresholds F >= 1 and S >= 1, from a healthy
\* state with both counters 0: each of the first F-1 failures gives
\* (healthy, failures = k, transitionNone), the F-th (failing, failures = 0,
\* transitionFailure), each of the next S-1 successes (failing,
\* successes = k, transitionNone), the S-th (healthy, successes = 0,
\* transitionRecovery).
C2_HysteresisWalk ==
    call.op = "walk" =>
       LET F == call.failureThreshold
           S == call.successThreshold
           k == call.steps
           expected ==
              CASE k = 0 -> [status |-> StatusHealthy, failures |-> 0,
                             successes |-> 0, transition |-> transitionNone]
                [] k >= 1 /\ k < F ->
                            [status |-> StatusHealthy, failures |-> k,
                             successes |-> 0, transition |-> transitionNone]
                [] k = F -> [status |-> StatusFailing, failures |-> 0,
                             successes |-> 0, transition |-> transitionFailure]
                [] k > F /\ k < F + S ->
                            [status |-> StatusFailing, failures |-> 0,
                             successes |-> k - F, transition |-> transitionNone]
                [] OTHER -> [status |-> StatusHealthy, failures |-> 0,
                             successes |-> 0, transition |-> transitionRecovery]
       IN  /\ k <= F + S
           /\ call.state.Status = expected.status
           /\ call.state.ConsecutiveFailures = expected.failures
           /\ call.state.ConsecutiveSuccesses = expected.successes
           /\ call.transition = expected.transition

\* A walk with thresholds 3 and 2 has come to its end.
C2_Witness ==
    /\ call.op = "walk"
    /\ call.failureThreshold = 3 /\ call.successThreshold = 2
    /\ call.steps = 5
    /\ call.transition = transitionRecovery

\* C6: the threshold handleCycleResult uses for a configured value v is
\* max(v, 1): 1 for every v <= 0, v for every v >= 1, never 0.
C6_ThresholdResolution ==
    call.op = "thresholds" =>
       /\ call.failureThreshold = Max(call.failure, 1)
       /\ call.successThreshold = Max(call.success, 1)
       /\ call.failure <= 0 => call.failureThreshold = 1
       /\ call.failure >= 1 => call.failureThreshold = call.failure
       /\ call.failureThreshold # 0 /\ call.successThreshold # 0

\* The thresholds of a definition with cycles.failure 0 and cycles.success
\* -3 have been resolved.
C6_Witness ==
    /\ call.op = "thresholds"
    /\ call.failure = 0 /\ call.success = -3
    /\ call.failureThreshold = 1 /\ call.successThreshold = 1

\* C7: the staleness guard.  For a state with a recorded LastCycleAt and a
\* positive cycle interval the result has both counters 0 if the time from
\* LastCycleAt to cycleAt is more than twice the interval and is the state
\* itself if not (so also at exactly twice the interval); status and both
\* timestamps are always those of the state; a state with no recorded
\* LastCycleAt comes back unchanged.
C7_StalenessGuard ==
    call.op = "resetStaleConsecutiveState" =>
       LET current == call.current
           result == call.result
           elapsed == call.cycleAt - current.LastCycleAt
       IN  /\ (~IsZero(current.LastCycleAt) /\ call.cycleInterval > 0) =>
                 IF elapsed > 2 * call.cycleInterval
                 THEN result.ConsecutiveFailures = 0 /\ result.ConsecutiveSuccesses = 0
                 ELSE result = current
           /\ result.Status = current.Status
           /\ result.LastCycleStartedAt = current.LastCycleStartedAt
           /\ result.LastCycleAt = current.LastCycleAt
           /\ IsZero(current.LastCycleAt) => result = current

\* The guard has been given non-zero counters and a gap of exactly twice
\* the interval.
C7_Witness ==
    /\ call.op = "resetStaleConsecutiveState"
    /\ call.cycleInterval = 2
    /\ call.cycleAt - call.current.LastCycleAt = 4
    /\ ~IsZero(call.current.LastCycleAt)
    /\ call.current.ConsecutiveFailures = MaxCount
    /\ call.result = call.current

\* ------------------------------------------------------------ the scheduler

\* C11: a disabled definition is skipped entirely.  Whatever number of
\* rounds has run, no goroutine of runCycle has been started for it (so no
\* request is made for it) and Get finds no state under its name.
C11_DisabledSkipped ==
    \A n \in Names :
        ~IsActive(specs[n]) => task[n].pc = "idle" /\ ~Get(stateStore, n).ok

\* Two rounds are over, "a" has failed in both, and Run waits in its select
\* with the next tick there; "off" is disabled.
C11_Witness ==
    /\ runner = "select" /\ ticker.C > 0
    /\ ~IsActive(specs["off"])
    /\ Get(stateStore, "a").ok /\ stateStore["a"].ConsecutiveFailures = 2
    /\ Get(stateStore, "b").ok

\* A goroutine of runCycle is under way for the definition.
Running(n) == task[n].pc # "idle"

\* The goroutine of the definition takes a step.
TaskStep(n) == Running(n) /\ task'[n] # task[n]

\* C12: the round barrier.  While a goroutine of a round is under way Run is
\* inside that round's runCycle; runCycle returns only when every goroutine
\* of the round is done; a round is started only when no goroutine is under
\* way (rounds never overlap).  Inside a round the goroutines do not touch
\* each other: a step of one (the start of its request, the storing of its
\* result) leaves every other goroutine and every other definition's state
\* as they are.
C12_RoundBarrier ==
    [][/\ (\E n \in Names : Running(n))' => runner' = "wait"
       /\ (runner = "wait" /\ runner' # "wait") => \A n \in Names : ~Running(n)
       /\ (\E n \in Names : ~Running(n) /\ Running(n)') => \A n \in Names : ~Running(n)
       /\ \A n \in Names : (TaskStep(n) /\ task'[n].pc # task[n].pc) =>
             \A m \in Names \ {n} : /\ task'[m] = task[m]
                                     /\ Get(stateStore', m) = Get(stateStore, m)]_vars

\* The request of "a" has been under way for a second and more; in that
\* round "b" has stored its result and its goroutine is done, the next tick
\* is there, and Run still waits for "a".
C12_Witness ==
    /\ runner = "wait" /\ ticker.C > 0
    /\ task["a"].pc = "probing" /\ task["a"].left < reqTimeout(specs["a"])
    /\ task["b"].pc = "idle"
    /\ Get(stateStore, "b").ok
    /\ ~IsZero(stateStore["b"].LastCycleAt)
    /\ stateStore["b"].LastCycleAt >= task["a"].cycleStartedAt
    /\ stateStore["b"].LastCycleStartedAt >= task["a"].cycleStartedAt

\* C13: once the context of Run is cancelled, Run starts no round from its
\* select, a tick waiting in ticker.C or not.
C13_NoRoundOnceCancelled ==
    [][~(/\ ctxDone
         /\ runner = "select"
         /\ \E n \in Names : ~Running(n) /\ Running(n)')]_vars

\* C14: no round is left half-updated.  When Run has returned, no goroutine
\* of runCycle is under way, and every active definition has a state whose
\* LastCycleAt is set and is no earlier than its LastCycleStartedAt: the
\* result of the round it last started has been stored.
C14_ReturnAfterRound ==
    runner = "returned" =>
        \A n \in Active :
            /\ ~Running(n)
            /\ Get(stateStore, n).ok
            /\ ~IsZero(stateStore[n].LastCycleAt)
            /\ stateStore[n].LastCycleAt >= stateStore[n].LastCycleStartedAt

\* The context was cancelled while goroutines of a round were under way, and
\* Run has returned; the result of "a" was stored at that same instant.
C14_Witness ==
    /\ runner = "returned"
    /\ cancelledDuring = "round"
    /\ Get(stateStore, "a").ok /\ stateStore["a"].LastCycleAt = Now
    /\ Get(stateStore, "b").ok

\* ----------------------------------------------------------- the dispatcher

\* handleCycleResult has stored the result of the definition's request.
HandledStep(n) == task[n].pc = "probed" /\ task'[n].pc # "probed"

\* A Send of the definition's sendEmailToAll returns.
SendStep(n) ==
    task[n].pc = "sending" /\ (task'[n].pc # "sending" \/ sends'[n] # sends[n])

\* sendEmailToAll is called for the definition.
BatchStep(n) == task[n].pc # "sending" /\ task'[n].pc = "sending"

\* The runScript goroutines of the definition under way.
Launches(n) == scripts[n].on_failure + scripts[n].on_success

\* C15: the sends of a notification are not awaited by the round.  Run is
\* never kept inside runCycle, with the next tick waiting, by nothing but
\* Send calls: once every goroutine of the round has stored its result, the
\* round is over.
C15_RoundAwaitsNoSend ==
    ~(/\ runner = "wait" /\ ticker.C > 0
      /\ \E n \in Names : task[n].pc = "sending"
      /\ \A n \in Names : task[n].pc \in {"idle", "sending"})

\* C16: with a mail service and recipients set, sendEmailToAll is called
\* once for every transitionFailure and transitionRecovery of a definition
\* and for nothing else, and calls Send once for each recipient, in the order
\* of the list: the Send calls that have returned are those of the first
\* recipients, the next one is for the recipient after them whether the last
\* one failed or not, and the loop ends with the last recipient and not
\* before.  A Send that returns, with or without error, changes neither the
\* store nor the transition.
C16_OneSendPerRecipient ==
    [][\A n \in Names :
          /\ HandledStep(n) =>
                (task'[n].pc = "sending" <=>
                    /\ transition'[n] # transitionNone
                    /\ mailService /\ Len(mailRecipients) > 0)
          /\ BatchStep(n) => HandledStep(n) /\ sends'[n] = NoSend
          /\ SendStep(n) =>
                LET i == Len(sends[n]) + 1
                IN  /\ i <= Len(mailRecipients)
                    /\ IF i = Len(mailRecipients)
                       THEN task'[n].pc = "idle"
                       ELSE /\ task'[n].pc = "sending"
                            /\ Len(sends'[n]) = i
                            /\ SubSeq(sends'[n], 1, i - 1) = sends[n]
                            /\ sends'[n][i].recipient = mailRecipients[i]
                    /\ stateStore' = stateStore
                    /\ transition' = transition]_vars

\* "a" has entered failing, the Send to the first recipient has failed, and
\* the Send to the second is under way.
C16_Witness ==
    /\ task["a"].pc = "sending"
    /\ transition["a"] = transitionFailure
    /\ stateStore["a"].Status = StatusFailing
    /\ sends["a"] = <<[recipient |-> "ops", ok |-> FALSE]>>

\* C17: a cycle without transition dispatches nothing.  A script is
\* launched and sendEmailToAll is called for a definition only in the step
\* in which handleCycleResult gets transitionFailure or transitionRecovery
\* for it, at most one script and one sendEmailToAll in such a step, the
\* script being the one of the transition; a step with transitionNone
\* launches nothing and sends nothing.
C17_DispatchOnlyOnTransition ==
    [][\A n \in Names :
          LET launched == scripts'[n].on_failure + scripts'[n].on_success > Launches(n)
          IN  /\ (launched \/ BatchStep(n)) =>
                    HandledStep(n) /\ transition'[n] # transitionNone
              /\ scripts'[n].on_failure + scripts'[n].on_success <= Launches(n) + 1
              /\ scripts'[n].on_failure > scripts[n].on_failure =>
                    transition'[n] = transitionFailure
              /\ scripts'[n].on_success > scripts[n].on_success =>
                    transition'[n] = transitionRecovery
              /\ (HandledStep(n) /\ transition'[n] = transitionNone) =>
                    scripts'[n] = scripts[n] /\ task'[n].pc = "idle"]_vars

\* "a", failing since the round before, has failed again: the cycle gave no
\* transition, no script is under way and nothing is being sent.
C17_Witness ==
    /\ transition["a"] = transitionNone
    /\ lastEdge["a"] = transitionFailure
    /\ stateStore["a"].Status = StatusFailing
    /\ stateStore["a"].ConsecutiveFailures = 2
    /\ ~Running("a")
    /\ scripts["a"] = NoScripts
    /\ specs["a"].OnFailure # ""
    /\ mailService /\ mailRecipients = Recipients

\* ------------------------------------------------------- outcomes and state

\* stateStore.Set is called for the definition: its state appears, or a
\* field of it takes a new value (instants only ever recede otherwise).
StoreWritten(n) ==
    /\ Get(stateStore', n).ok
    /\ \/ ~Get(stateStore, n).ok
       \/ stateStore'[n].Status # stateStore[n].Status
       \/ stateStore'[n].ConsecutiveFailures # stateStore[n].ConsecutiveFailures
       \/ stateStore'[n].ConsecutiveSuccesses # stateStore[n].ConsecutiveSuccesses
       \/ stateStore'[n].LastCycleStartedAt > stateStore[n].LastCycleStartedAt
       \/ stateStore'[n].LastCycleAt > stateStore[n].LastCycleAt

\* The steps a goroutine of runCycle takes, in their order.
TaskOrder ==
    {<<"idle", "spawned">>, <<"spawned", "probing">>, <<"probing", "probed">>,
     <<"probed", "idle">>, <<"probed", "sending">>, <<"sending", "idle">>}

\* C18 as stated: the state of a definition is written once in a round, by
\* the step that applies the outcome of its request.
C18_OneUpdatePerRound ==
    [][\A n \in Names : StoreWritten(n) => HandledStep(n)]_vars

\* C18: every outcome of a request is data.  The goroutine of a definition
\* goes through its steps once and in order (one request a round, none made
\* again), and whatever the request returned, handleCycleResult applies the
\* state machine once and stores its result with the instant of completion.
\* The store is written for the definition twice a round: by
\* markCycleStarted before the request, which sets LastCycleStartedAt and
\* leaves status, counters and LastCycleAt as they are (healthy, 0, 0, never
\* for a new state), and by handleCycleResult; by nothing else.
C18_OutcomeIsData ==
    [][\A n \in Names :
          /\ task'[n].pc # task[n].pc => <<task[n].pc, task'[n].pc>> \in TaskOrder
          /\ StoreWritten(n) => task[n].pc \in {"spawned", "probed"} /\ TaskStep(n)
          /\ (task[n].pc = "spawned" /\ TaskStep(n)) =>
                LET before == IF Get(stateStore, n).ok THEN stateStore[n] ELSE NewSpecState
                IN  stateStore'[n] = [before EXCEPT !.LastCycleStartedAt = Now]
          /\ HandledStep(n) =>
                /\ stateStore'[n] =
                      cycleResult(stateStore, n, specs[n], task[n].checkOK,
                                  task[n].cycleStartedAt, Now, cycleInterval).nextState
                /\ stateStore'[n].LastCycleAt = Now]_vars

\* The request of "a" has returned an error a second after it was made, and
\* the result is stored: failing, completed now, started a second ago.
C18_Witness ==
    /\ ~Running("a")
    /\ transition["a"] = transitionFailure
    /\ stateStore["a"].Status = StatusFailing
    /\ stateStore["a"].LastCycleAt = Now
    /\ stateStore["a"].LastCycleStartedAt = Now - 1

\* C19: Run never panics, whatever the definitions and the cycle interval
\* of the configuration.
C19_RunNeverPanics == runner # "panicked"

\* C20 as stated: the store holds a state for a definition only once the
\* result of a request of that definition has been stored.
C20_NoStateBeforeFirstResult ==
    \A n \in Names : Get(stateStore, n).ok => ~IsZero(stateStore[n].LastCycleAt)

\* C20: the state of a definition is created by markCycleStarted, when the
\* goroutine of its first round starts and before its first request is
\* made: Get finds no state only as long as that goroutine has not started;
\* while the first request is under way Get reports a healthy state with
\* both counters 0, LastCycleStartedAt set and LastCycleAt never.  A state
\* once created is never deleted.
C20_StateFromFirstStart ==
    [][\A n \in Names :
          /\ ~Get(stateStore', n).ok => task'[n].pc \in {"idle", "spawned"}
          /\ (~Get(stateStore, n).ok /\ Get(stateStore', n).ok) =>
                /\ task[n].pc = "spawned" /\ task'[n].pc = "probing"
                /\ stateStore'[n] = [NewSpecState EXCEPT !.LastCycleStartedAt = Now]
          /\ (task'[n].pc \in {"probing", "probed"} /\ Get(stateStore', n).ok
                  /\ IsZero(stateStore'[n].LastCycleAt)) =>
                /\ stateStore'[n].Status = StatusHealthy
                /\ stateStore'[n].ConsecutiveFailures = 0
                /\ stateStore'[n].ConsecutiveSuccesses = 0
                /\ ~IsZero(stateStore'[n].LastCycleStartedAt)
          /\ Get(stateStore, n).ok => Get(stateStore', n).ok]_vars

\* The first request of "a" has been under way for a second: Get reports a
\* healthy state for "a", started a second ago and never completed.
C20_Witness ==
    /\ task["a"].pc = "probing"
    /\ Get(stateStore, "a").ok
    /\ Get(stateStore, "a").state.Status = StatusHealthy
    /\ stateStore["a"].LastCycleStartedAt = Now - 1
    /\ IsZero(stateStore["a"].LastCycleAt)

\* ------------------------------------------------------ the store and views

\* A caller of Set holds the lock.
Storing(p) == call.callers[p].pc \in {"store", "stored", "Unlock"}

\* A caller of Get holds the lock.
Loading(p) == call.callers[p].pc \in {"load", "loaded", "RUnlock"}

\* C21: the store is safe under concurrent Get and Set. Calls of Set are
\* serialized: at most one holds the lock, and no Get holds it meanwhile. A
\* Get returns the whole value of the latest completed Set of its key, or
\* not-found when there was none: never parts of two values. A step of Set
\* changes no key but its own.
C21_StoreSafe ==
    [][ /\ \A p, q \in Setters : Storing(p)' /\ Storing(q)' => p = q
        /\ \A p \in Setters, q \in Getters : ~(Storing(p)' /\ Loading(q)')
        /\ \A q \in Getters :
              call'.callers[q].pc = "returned" /\ call.callers[q].pc # "returned"
              => LET c == call'.callers[q]
                     latest == Get(call'.completed, c.specName)
                 IN  /\ c.ok = latest.ok
                     /\ c.specState = latest.state
                     /\ c.ok => c.specState \in Stored
                     /\ ~c.ok => c.specState = ZeroSpecState
        /\ \A k \in Keys :
              Get(stateStore', k) # Get(stateStore, k)
              => \E p \in Setters : Storing(p) /\ call.callers[p].specName = k ]_vars

\* A Get has returned a value while a Set of another value for the same key
\* waits for the lock or has just taken it.
C21_Witness ==
    \E q \in Getters, p \in Setters :
       /\ call.op = "concurrent"
       /\ call.callers[q].pc = "returned"
       /\ call.callers[q].ok
       /\ call.callers[p].pc \in {"Lock", "store"}
       /\ call.callers[p].specName = call.callers[q].specName
       /\ call.callers[p].specState # call.callers[q].specState

\* C22: a definition with no state in the store is shown with hasState
\* false, state "unknown" and both instants "never"; a definition with a
\* state is shown with the stored status and counters, and each stored
\* instant that is not zero as its formatted time instead of "never".
C22_RowShowsStored ==
    call.op = "snapshot" =>
       \A i \in DOMAIN parsedSpecs :
          LET row == call.data.Rows[i]
              name == parsedSpecs[i]
          IN  IF name \notin DOMAIN call.store
              THEN /\ ~row.HasState
                   /\ row.State = "unknown"
                   /\ row.LastCycleStartedAt = Never
                   /\ row.LastCycleAt = Never
              ELSE LET stored == call.store[name]
                   IN  /\ row.HasState
                       /\ row.State = stored.Status
                       /\ row.ConsecutiveFailures = stored.ConsecutiveFailures
                       /\ row.ConsecutiveSuccesses = stored.ConsecutiveSuccesses
                       /\ row.LastCycleStartedAt =
                             IF stored.LastCycleStartedAt = ZeroTime
                             THEN Never
                             ELSE [RFC3339Nano |-> stored.LastCycleStartedAt]
                       /\ row.LastCycleAt =
                             IF stored.LastCycleAt = ZeroTime
                             THEN Never
                             ELSE [RFC3339Nano |-> stored.LastCycleAt]

\* A view with a definition that has no state and one whose round has
\* started but not completed.
C22_Witness ==
    /\ call.op = "snapshot"
    /\ "a" \in DOMAIN call.store
    /\ "b" \notin DOMAIN call.store
    /\ call.data.Rows[1].State = StatusFailing
    /\ call.data.Rows[1].LastCycleStartedAt = [RFC3339Nano |-> Now]
    /\ call.data.Rows[1].LastCycleAt = Never
    /\ call.data.Rows[2].State = "unknown"

\* The view in the buffer of a connection's response, and whether there is one.
Shows(c) == c \in DOMAIN conns /\ conns[c].body # NoView

\* C23: in every view a disabled definition is shown as disabled, without
\* state, in state "unknown", with both counters zero and both instants
\* "never".
C23_DisabledShownUnknown ==
    \A c \in Clients :
       Shows(c) =>
          \A i \in DOMAIN conns[c].body.Rows :
             LET row == conns[c].body.Rows[i]
             IN  specs[parsedSpecs[i]].Disabled =>
                    /\ row.Disabled
                    /\ ~row.HasState
                    /\ row.State = "unknown"
                    /\ row.ConsecutiveFailures = 0
                    /\ row.ConsecutiveSuccesses = 0
                    /\ row.LastCycleStartedAt = Never
                    /\ row.LastCycleAt = Never

\* A view with the disabled definition, taken after rounds in which an
\* enabled one went to failing.
C23_Witness ==
    /\ Shows("c1")
    /\ conns["c1"].body.Rows[3].Disabled
    /\ conns["c1"].body.Rows[1].State = StatusFailing
    /\ ticker.running

\* A step of the snapshot function for a connection: it is entered, or
\* takes a turn of its loop.
SnapshotStep(c) ==
    /\ c \in DOMAIN conns
    /\ conns[c].pc \in {"accepted", "select", "snapshot"}
    /\ conns'[c].pc \in {"snapshot", "write"}
    /\ conns'[c].snapshot # conns[c].snapshot

\* C24: a snapshot equals the one taken before it on the same connection in
\* every field but generatedAt when the store was not written from the
\* beginning of the first to the end of the second, and no step of the
\* snapshot function changes the store.
C24_SnapshotIdempotent ==
    [][\A c \in Clients :
          /\ (c \in DOMAIN conns' /\ conns'[c].pc = "write" /\ conns'[c].prev # << >>)
             => conns'[c].snapshot.Specs = conns'[c].prev
          /\ SnapshotStep(c) => stateStore' = stateStore]_vars

\* A second snapshot is complete, a second after the first, with the store
\* holding states and not written in between.
C24_Witness ==
    /\ "c1" \in DOMAIN conns
    /\ conns["c1"].pc = "write"
    /\ conns["c1"].prev # << >>
    /\ conns["c1"].snapshot.GeneratedAt = Now
    /\ conns["c1"].prev[1].HasState
    /\ conns["c1"].prev[1].LastCycleAt = Now - 1

\* C25: a view counts every definition, enabled or disabled, and has one
\* row per definition in the order of the definitions. When every enabled
\* definition has had a round and the store was not written while the
\* snapshot was taken, the row of an enabled definition has a state whose
\* status is the state machine's for the last probe outcome (thresholds of
\* one: healthy after a success, failing after a failure), and the row of a
\* disabled one has none.
C25_ViewShape ==
    [][\A c \in Clients :
          (c \in DOMAIN conns /\ conns[c].pc = "write" /\ conns'[c].pc = "flush")
          => LET view == conns'[c].body
             IN  /\ view.SpecCount = Cardinality(Names)
                 /\ Len(view.Rows) = view.SpecCount
                 /\ \A i \in DOMAIN parsedSpecs : view.Rows[i].Name = parsedSpecs[i]
                 /\ (~conns[c].overtaken /\ \A n \in Active : streak[n].len >= 1)
                    => \A i \in DOMAIN parsedSpecs :
                          LET n == parsedSpecs[i]
                          IN  IF n \in Active
                              THEN /\ view.Rows[i].HasState
                                   /\ view.Rows[i].State =
                                         IF streak[n].ok THEN StatusHealthy ELSE StatusFailing
                              ELSE ~view.Rows[i].HasState]_vars

\* A view taken after the first round, with one enabled definition healthy
\* and the other failing.
C25_Witness ==
    /\ Shows("c1")
    /\ conns["c1"].body.SpecCount = 3
    /\ conns["c1"].body.Rows[1].State = StatusHealthy
    /\ conns["c1"].body.Rows[2].State = StatusFailing
    /\ ~conns["c1"].body.Rows[3].HasState
    /\ runner = "newTicker"

\* C26: the rows of a snapshot are the contents of the store at one
\* instant, also when a round writes while the snapshot is taken: no row is
\* read after a write that came later than a write over a row already read.
C26_SnapshotOfOneInstant ==
    \A c \in Clients : c \in DOMAIN conns => ~conns[c].torn

\* ------------------------------------------------------ streams and the gate

\* The snapshot function is entered for a connection: a frame is begun.
FrameBegun(c) ==
    /\ c \in DOMAIN conns
    /\ conns[c].pc # "snapshot"
    /\ conns'[c].pc = "snapshot"

\* C27: a streaming session begins a frame when it is connected and then
\* one per tick it takes from its ticker; a write that fails ends it; at its
\* select, once the context of its request is done, it begins no further
\* frame; and once ended it writes nothing.
C27_SessionLifecycle ==
    [][\A c \in Clients :
          c \in DOMAIN conns =>
             /\ FrameBegun(c) =>
                   \/ conns[c].pc = "accepted"
                   \/ /\ conns[c].pc = "select"
                      /\ conns[c].ticker.C = 1
                      /\ conns'[c].ticker.C = 0
             /\ (conns[c].pc = "write" /\ conns'[c].pc # "write")
                   => conns'[c].pc \in {"flush", "closed"}
             /\ (conns[c].pc = "select" /\ conns[c].ctxDone) => ~FrameBegun(c)
             /\ conns[c].pc = "closed"
                   => conns'[c].pc \in {"closed", "accepted"} /\ conns'[c].body = NoView]_vars

\* A step of the handler of a connection, or its client going away.
HandlerStep(c) ==
    /\ c \in DOMAIN conns'
    /\ \/ c \notin DOMAIN conns
       \/ conns'[c].pc # conns[c].pc
       \/ conns'[c].ctxDone # conns[c].ctxDone
       \/ Len(conns'[c].snapshot.Specs) # Len(conns[c].snapshot.Specs)

C29_SessionsEndInGrace ==
    (server.main = "shutdown" /\ server.grace = 0)
    => \A c \in DOMAIN conns : ~Open(conns[c])

\* The first step of the handler of a request.
GateStep(c) ==
    /\ c \in DOMAIN conns
    /\ conns[c].pc = "accepted"
    /\ conns'[c].pc # "accepted"

\* The request carries the credentials the server is configured with.
Matching(c) ==
    conns[c].auth = [ok |-> TRUE, username |-> server.basicAuthUsername,
                     password |-> server.basicAuthPassword]

\* C30: with credentials configured, a request for the status page or the
\* event stream without credentials or with others is answered 401, and the
\* snapshot function is not called and nothing is written for it; with none
\* configured every request passes; /healthz is answered 200 without
\* credentials, whatever is configured.
C30_BasicAuthGate ==
    [][\A c \in Clients :
          /\ GateStep(c) =>
                IF conns[c].route = "/healthz"
                THEN conns'[c].code = 200
                ELSE IF server.basicAuthUsername # "" /\ ~Matching(c)
                     THEN /\ conns'[c].code = 401
                          /\ conns'[c].pc = "closed"
                     ELSE /\ conns'[c].code # 401
                          /\ conns'[c].pc = "snapshot"
          /\ (c \in DOMAIN conns' /\ conns'[c].code = 401)
                => /\ conns'[c].pc = "closed"
                   /\ conns'[c].snapshot = NoSnapshot
                   /\ conns'[c].body = NoView]_vars

\* With credentials configured, a request for the event stream with a wrong
\* password has been answered 401.
C30_Witness ==
    /\ server.basicAuthUsername = "eddie"
    /\ "c1" \in DOMAIN conns
    /\ conns["c1"].route = "/events"
    /\ conns["c1"].auth.ok
    /\ conns["c1"].auth.password = "wrong"
    /\ conns["c1"].code = 401

\* C31: Parse returns an error and no definitions when a document has an
\* empty or white-space-only name or when two documents share a name, so the
\* definitions of a Parse without error have non-empty, pairwise distinct
\* names (each key of the state store belongs to one definition).
C31_TargetIdentity ==
    call.op = "Parse" =>
        LET docs == call.loaded.specs
            result == call.result
            blank(name) == \A i \in 1..Len(name) : IsSpace(name[i])
        IN  /\ (\/ \E i \in 1..Len(docs) : blank(docs[i].Name)
                \/ \E i, j \in 1..Len(docs) : i # j /\ docs[i].Name = docs[j].Name)
               => result.err # NoError
            /\ result.err # NoError => result.specs = << >>
            /\ result.err = NoError =>
                  /\ result.specs = docs
                  /\ \A i \in 1..Len(result.specs) : ~blank(result.specs[i].Name)
                  /\ \A i, j \in 1..Len(result.specs) :
                        i # j => result.specs[i].Name # result.specs[j].Name

\* Parse has refused a document with a white-space-only name, and two
\* documents of one name the second of which is disabled.
C31_Witness ==
    /\ call.op = "Parse"
    /\ call.loaded.err = NoError
    /\ call.result.err # NoError
    /\ \/ \E i \in 1..Len(call.loaded.specs) : call.loaded.specs[i].Name = <<" ">>
       \/ /\ Len(call.loaded.specs) = 2
          /\ call.loaded.specs[1].Name = call.loaded.specs[2].Name
          /\ call.loaded.specs[1].Name # << >>
          /\ call.loaded.specs[2].Disabled

\* The class of an error of validateHTTPSpec, by its place in the order
\* parse error (the definition gives no request), network error, status
\* mismatch, header mismatch, body mismatch.
ErrorClass(err) ==
    CASE err \in {"parse url", "url must include scheme and host", "build request"} -> 1
      [] err \in {"perform request", "read response body"} -> 2
      [] err = "unexpected status code" -> 3
      [] err = "unexpected header" -> 4
      [] err \in {"unexpected body exact match", "response body does not contain"} -> 5
      [] OTHER -> 0

\* C32: a probe returns success if and only if the request is made and
\* answered and every configured expectation passes (the status code when it
\* is configured > 0, every configured header by its exact value, the exact
\* body and the substring of the body, both when both are configured);
\* otherwise the failure is of the first failing class in the order parse
\* error, network error, status mismatch, header mismatch, body mismatch.
C32_ProbeVerdict ==
    call.op = "validateHTTPSpec" =>
        LET parsedSpec == call.parsedSpec
            expect == parsedSpec.Expect
            world == call.world
            resp == world.resp
            failing ==
                {c \in 1..5 :
                    \/ c = 1 /\ \/ parsedSpec.URL # "http://example.com"
                                \/ parsedSpec.Method \notin {"", "GET", "POST"}
                    \/ c = 2 /\ (world.doErr \/ world.readErr)
                    \/ c = 3 /\ expect.Code > 0 /\ resp.StatusCode # expect.Code
                    \/ c = 4 /\ \E h \in DOMAIN expect.Header :
                                   \/ h \notin DOMAIN resp.Header /\ expect.Header[h] # ""
                                   \/ h \in DOMAIN resp.Header /\ Head(resp.Header[h]) # expect.Header[h]
                    \/ c = 5 /\ \/ expect.Body.Exact # << >> /\ resp.Body # expect.Body.Exact
                                \/ /\ expect.Body.Contains # << >>
                                   /\ \A i \in 1..(Len(resp.Body) - Len(expect.Body.Contains) + 1) :
                                         SubSeq(resp.Body, i, i + Len(expect.Body.Contains) - 1)
                                            # expect.Body.Contains}
        IN  /\ call.err = "nil" <=> failing = {}
            /\ call.err # "nil" =>
                  /\ ErrorClass(call.err) \in failing
                  /\ \A c \in failing : ErrorClass(call.err) <= c

\* A probe with status code, headers, exact body and substring configured got
\* a response that passes all but the substring, and failed on the body.
C32_Witness ==
    /\ call.op = "validateHTTPSpec"
    /\ call.parsedSpec.Expect.Body.Exact = <<"o", "k">>
    /\ call.parsedSpec.Expect.Body.Contains = <<"!">>
    /\ call.parsedSpec.Expect.Code = 200
    /\ call.parsedSpec.Expect.Header # << >>
    /\ call.world.resp.Body = <<"o", "k">>
    /\ call.err = "response body does not contain"

\* C33: in every state the store holds for a target with resolved thresholds
\* F and S, the status is Healthy or Failing and no counter is negative; a
\* Healthy state has consecutiveSuccesses = 0 and consecutiveFailures < F, a
\* Failing state has consecutiveSuccesses < S.
C33_CounterBounds ==
    \A n \in DOMAIN stateStore :
        LET st == stateStore[n]
            F == thresholdOrDefault(specs[n].Cycles.Failure, 1)
            S == thresholdOrDefault(specs[n].Cycles.Success, 1)
        IN  /\ st.Status \in {StatusHealthy, StatusFailing}
            /\ st.ConsecutiveFailures >= 0
            /\ st.ConsecutiveSuccesses >= 0
            /\ st.Status = StatusHealthy =>
                  st.ConsecutiveSuccesses = 0 /\ st.ConsecutiveFailures < F
            /\ st.Status = StatusFailing => st.ConsecutiveSuccesses < S

\* With both thresholds at 2, "a" has been stored Healthy one failure short of
\* Failing, and is now stored Failing one success short of recovery.
C33_Witness ==
    /\ specs["a"].Cycles.Failure = 2
    /\ specs["a"].Cycles.Success = 2
    /\ "a" \in DOMAIN stateStore
    /\ stateStore["a"].Status = StatusFailing
    /\ stateStore["a"].ConsecutiveSuccesses = 1
    /\ lastEdge["a"] = transitionFailure

\* What the store holds for a name, its instants apart: the status and the
\* counters.
Counters(st) ==
    [Status |-> st.Status,
     ConsecutiveFailures |-> st.ConsecutiveFailures,
     ConsecutiveSuccesses |-> st.ConsecutiveSuccesses]

\* C34, as claimed: no write to a name's state comes between the Get and the
\* Set of another, so after each of its rounds the stored status and
\* counters of a name are those the state machine gives when called on the
\* name's outcomes, one after the other in the order of the rounds.
C34_FoldOfStateMachine ==
    \A n \in DOMAIN stateStore :
        task[n].pc = "idle" => Counters(stateStore[n]) = Counters(call.pure[n])

\* C34, amended: no write to a name's state comes between the Get and the
\* Set of another, so the stored status, counters and lastCycleAt of a name
\* are at any moment those the staleness guard followed by the state machine
\* give when called on the name's outcomes and their instants, one after the
\* other in the order of the rounds.
C34_FoldOfGuardedMachine ==
    \A n \in DOMAIN stateStore :
        /\ Counters(stateStore[n]) = Counters(call.state[n])
        /\ stateStore[n].LastCycleAt = call.state[n].LastCycleAt

\* "a" is stored Failing after two failures in a row, in a round in which
\* the goroutine of "b", Failing since an earlier round, stands between its
\* Get and its Set.
C34_Witness ==
    /\ "a" \in DOMAIN stateStore
    /\ stateStore["a"].Status = StatusFailing
    /\ lastEdge["a"] = transitionFailure
    /\ task["a"].pc = "idle"
    /\ task["b"].pc = "handling"
    /\ task["b"].got.state.Status = StatusFailing

\* The status a transition leads to.
StatusAfter(trans) ==
    IF trans = transitionFailure THEN StatusFailing ELSE StatusHealthy

\* The store holds the state a name's transition of this round has made: the
\* new status, no counter, the completion of this round.
PostTransitionStored(n) ==
    /\ transition[n] # transitionNone
    /\ n \in DOMAIN stateStore
    /\ stateStore[n].Status = StatusAfter(transition[n])
    /\ stateStore[n].ConsecutiveFailures = 0
    /\ stateStore[n].ConsecutiveSuccesses = 0
    /\ stateStore[n].LastCycleAt = Now

\* C35: for every transition to Failing and every recovery, the state after
\* the transition is in the store before the script is launched and before
\* sendEmailToAll is entered, and while the notifications of a transition
\* are sent (the first one has been sent, or is about to be) the snapshot
\* function shows the new status of the definition.
C35_StoreBeforeDispatch ==
    [][\A n \in Names :
          /\ (\E action \in DOMAIN NoScripts : scripts'[n][action] > scripts[n][action])
                => PostTransitionStored(n)
          /\ (task[n].pc # "sending" /\ task'[n].pc = "sending")
                => PostTransitionStored(n)
          /\ task'[n].pc = "sending"
                => specStatusOf(stateStore', n, specs[n]).Status = StatusAfter(transition'[n])]_vars

\* The notification of the recovery of "a" has been sent to the first
\* recipient, its on_success script is running, and the snapshot function
\* shows "a" healthy.
C35_Witness ==
    /\ task["a"].pc = "sending"
    /\ Len(sends["a"]) = 1
    /\ transition["a"] = transitionRecovery
    /\ scripts["a"].on_success > 0
    /\ specStatusOf(stateStore, "a", specs["a"]).Status = StatusHealthy

\* C36: a request aborted by the cancellation of the context returns an
\* error, and handleCycleResult handles it as any failure: staleness guard
\* and state machine run on the stored state and the result is stored; when
\* it completes the failure threshold of a Healthy definition (threshold 1
\* here) the transition is transitionFailure, the on_failure script is
\* launched if the definition names one, and sendEmailToAll is entered if a
\* mail service and recipients are configured, all after the cancellation.
C36_CancelledProbeIsFailure ==
    [][\A n \in Names :
          /\ (task[n].pc = "probing" /\ task'[n].pc = "probed" /\ ctxDone)
                => ~task'[n].checkOK
          /\ (HandledStep(n) /\ ctxDone /\ ~task[n].checkOK) =>
                LET F == thresholdOrDefault(specs[n].Cycles.Failure, 1)
                    guarded == resetStaleConsecutiveState(stateStore[n], Now, cycleInterval)
                    failures == guarded.ConsecutiveFailures + 1
                IN  /\ stateStore'[n].LastCycleAt = Now
                    /\ stateStore'[n].ConsecutiveSuccesses = 0
                    /\ IF stateStore[n].Status = StatusHealthy /\ failures >= F
                       THEN /\ stateStore'[n].Status = StatusFailing
                            /\ stateStore'[n].ConsecutiveFailures = 0
                            /\ transition'[n] = transitionFailure
                            /\ scripts'[n].on_failure =
                                  scripts[n].on_failure + (IF specs[n].OnFailure # "" THEN 1 ELSE 0)
                            /\ task'[n].pc = "sending"
                                  <=> mailService /\ Len(mailRecipients) > 0
                       ELSE /\ stateStore'[n].Status = stateStore[n].Status
                            /\ stateStore'[n].ConsecutiveFailures = failures
                            /\ transition'[n] = transitionNone
                            /\ scripts'[n] = scripts[n]
                            /\ task'[n].pc = "idle"]_vars

\* The context was cancelled between two rounds, Run took the tick all the
\* same, and the request of "a", aborted, has made "a" Failing: its
\* on_failure script runs and the first notification has been sent.
C36_Witness ==
    /\ ctxDone
    /\ cancelledDuring = "rest"
    /\ ticker.running
    /\ transition["a"] = transitionFailure
    /\ stateStore["a"].Status = StatusFailing
    /\ scripts["a"].on_failure > 0
    /\ task["a"].pc = "sending"
    /\ Len(sends["a"]) = 1

\* The step that ends a round: wg.Wait of runCycle returns.
RoundEnds == runner = "wait" /\ runner' # "wait"

\* C37: when a round ends, the lastCycleStartedAt and the lastCycleAt the
\* store holds for every active definition are those of that round (the
\* instant its goroutine took at its start, kept since it wrote it, and the
\* completion it wrote since), with lastCycleStartedAt <= lastCycleAt; the
\* lastCycleAt of a definition never moves back (a second passing moves the
\* frame, not the instant); and the write at the start of a cycle changes
\* only lastCycleStartedAt of a state the store holds.
C37_CycleTimestamps ==
    [][/\ RoundEnds =>
             \A n \in Active :
                /\ n \in DOMAIN stateStore
                /\ ~IsZero(stateStore[n].LastCycleAt)
                /\ stateStore[n].LastCycleStartedAt <= stateStore[n].LastCycleAt
       /\ \A n \in Names :
             /\ (task[n].pc = "handling" /\ task'[n].pc = "idle") =>
                   /\ stateStore[n].LastCycleStartedAt = task[n].cycleStartedAt
                   /\ stateStore'[n].LastCycleStartedAt = task[n].cycleStartedAt
                   /\ stateStore'[n].LastCycleAt = Now
             /\ (task[n].pc = "idle" /\ task'[n].pc = "idle" /\ n \in DOMAIN stateStore) =>
                   \/ stateStore'[n] = stateStore[n]
                   \/ /\ FoldElapse
                      /\ stateStore'[n] =
                            [stateStore[n] EXCEPT !.LastCycleStartedAt = Recede(@),
                                                  !.LastCycleAt = Recede(@)]
       /\ \A n \in DOMAIN stateStore :
             /\ n \in DOMAIN stateStore'
             /\ \/ stateStore'[n].LastCycleAt >= stateStore[n].LastCycleAt
                \/ FoldElapse /\ stateStore'[n].LastCycleAt = Recede(stateStore[n].LastCycleAt)
             /\ (task[n].pc = "marking" /\ task'[n].pc = "probing") =>
                   stateStore'[n] = [stateStore[n] EXCEPT !.LastCycleStartedAt = Now]]_vars

\* A later round ends: "a", with a failure counted in a round before, has
\* its start a second before its completion, and the completion of "b" lies
\* a second back.
C37_Witness ==
    /\ runner = "wait"
    /\ ticker.running
    /\ \A n \in Names : task[n].pc = "idle"
    /\ stateStore["a"].ConsecutiveFailures = 1
    /\ stateStore["a"].LastCycleAt = Now
    /\ stateStore["a"].LastCycleStartedAt = Now - 1
    /\ stateStore["b"].LastCycleAt = Now - 1
    /\ stateStore["b"].LastCycleStartedAt = Now - 1

\* C38: handleCycleResult launches the on_failure script once on
\* transitionFailure if and only if the definition names one, the on_success
\* script once on transitionRecovery if and only if the definition names
\* one, and no script otherwise, whether or not a mail service and
\* recipients are configured; without a mail service or without recipients
\* sendEmailToAll is not entered and no Send is made.
C38_ScriptsWithoutNotifier ==
    [][\A n \in Names :
          /\ HandledStep(n) =>
                /\ scripts'[n].on_failure - scripts[n].on_failure =
                      (IF transition'[n] = transitionFailure /\ specs[n].OnFailure # ""
                       THEN 1 ELSE 0)
                /\ scripts'[n].on_success - scripts[n].on_success =
                      (IF transition'[n] = transitionRecovery /\ specs[n].OnSuccess # ""
                       THEN 1 ELSE 0)
          /\ (~mailService \/ Len(mailRecipients) = 0) =>
                /\ task'[n].pc # "sending"
                /\ sends'[n] = NoSend]_vars

\* No mail service is configured, recipients are: "a" has recovered, its
\* on_success script runs while its on_failure script still does, and
\* nothing is being sent; "b", which names no script, is Failing.
C38_Witness ==
    /\ ~mailService
    /\ Len(mailRecipients) > 0
    /\ transition["a"] = transitionRecovery
    /\ scripts["a"].on_success = 1
    /\ scripts["a"].on_failure = 1
    /\ task["a"].pc = "idle"
    /\ lastEdge["b"] = transitionFailure
    /\ scripts["b"] = NoScripts

\* C39: the ticks of the ticker of Run are not queued. Its channel holds at
\* most one tick; a tick is put there only by a whole interval passing since
\* the tick before it (or since NewTicker), and is dropped when one is
\* waiting; every round but the first takes the one tick waiting. So after
\* a round of any length at most one round starts at once, the next one
\* needs a tick of its own, and the rounds started are never more than one
\* plus the ticks elapsed.
C39_TicksCoalesced ==
    [][/\ ticker.C \in {0, 1}
       /\ ticker'.C \in {0, 1}
       /\ (runner = "select" /\ runner' = "wait") => ticker.C = 1 /\ ticker'.C = 0
       /\ (\E n \in Names : task[n].pc = "idle" /\ task'[n].pc = "spawned")
             => \/ runner = "start"
                \/ runner = "select" /\ ticker.C = 1
       /\ ticker'.C > ticker.C => Second /\ ticker.running /\ ticker.next = 1
       /\ (Second /\ ticker.running) =>
             ticker'.C = (IF ticker.next = 1 THEN 1 ELSE ticker.C)]_vars

\* A round has gone on for three intervals: one tick waits, two were
\* dropped.
C39_Witness ==
    /\ runner = "wait"
    /\ ticker.running
    /\ ticker.C = 1
    /\ cycleInterval = 1
    /\ task["a"].pc = "probing"
    /\ task["a"].left = reqTimeout(specs["a"]) - 3

\* C40: with a cycle interval that is zero or negative, and with one whose
\* double does not fit time.Duration (it wraps to a value that is not
\* positive), resetStaleConsecutiveState returns the state as it got it.
C40_GuardArithmetic ==
    call.op = "resetStaleConsecutiveState" =>
        LET doubled == staleCycleGapMultiplier * call.cycleInterval
        IN  /\ doubled > MaxDuration => WrapDuration(doubled) <= 0
            /\ (call.cycleInterval <= 0 \/ doubled > MaxDuration)
                  => call.result = call.current

\* The guard was called with the largest interval, a state with counters and
\* a completion further back than the wrapped maximum, and has reset
\* nothing.
C40_Witness ==
    /\ call.op = "resetStaleConsecutiveState"
    /\ call.cycleInterval = MaxDuration
    /\ call.current.ConsecutiveFailures = MaxCount
    /\ ~IsZero(call.current.LastCycleAt)
    /\ call.cycleAt - call.current.LastCycleAt > 0
    /\ call.result = call.current

====
